---- MODULE Spec2Model ----
(***************************************************************************)
(* A model of the media-processing pipeline: the audio and video pipeline  *)
(* executors with their operation registry and fallbacks, the queue tasks  *)
(* that run them, the AI workflow coordinator with the /ai/workflow        *)
(* endpoint, and the storage manager with its two backends.                *)
(*                                                                         *)
(* The specifications share the variables:                                 *)
(*   Spec            one queue task running a pipeline executor            *)
(*   SpecWorkflow    one POST /ai/workflow request and its background      *)
(*                   tasks                                                 *)
(*   SpecStorage     one StorageManager and the calls made on it           *)
(*   SpecRedelivery  Spec with a second delivery of the job                *)
(*   SpecTasks       Spec with ai_workflow_task and cleanup_old_files_task *)
(*   SpecQueue       the broker's queues and the workers, as celery_app.py *)
(*                   configures them; SpecQueueFair adds fair scheduling   *)
(*   SpecLimits      Spec with the worker's time limits on the job         *)
(*   SpecApi         one request to the web process, its background tasks  *)
(*                   and the status and download requests that follow      *)
(*   SpecJobs        two workers that share the scratch directory and the  *)
(*                   storage, each running one job                         *)
(*   SpecSegments    one invocation of AudioProcessor._extract_segments    *)
(* The variables a specification does not use keep their initial values.   *)
(*                                                                         *)
(* `await f(...)` inside the task functions is read as a call of f that    *)
(* yields f's result.                                                      *)
(***************************************************************************)
EXTENDS Integers, Sequences, FiniteSets, TLC

\* Longest operation list a job is submitted with.
MaxOps == 2

VARIABLES
    \* ---- the queue task and the pipeline executor (Spec)
    task,           \* the task function (or the endpoint) that runs the executor
    operations,     \* the job's operation list
    inputExists,    \* os.path.exists(input_path) when the executor starts
    subtitleExists, \* parameters name a subtitle file and it exists
    listed,         \* cleanup_old_files_task's files and cutoff_date
    state,          \* the job's state in the result backend
    updates,        \* the update_state calls made, in order
    tpc,            \* position in the task function
    epc,            \* position in process_audio / process_video
    i,              \* 1-based index of the next operation of the loop
    current_input,  \* the executor's current_input
    calls,          \* the operation methods invoked, in order
    result,         \* the executor's (then the task's) result
    \* ---- the workflow endpoint and coordinator (SpecWorkflow)
    wf,
    \* ---- the storage manager (SpecStorage)
    st,
    \* ---- the delivery of the job that runs, and the run before it
    \* (SpecRedelivery)
    rd,
    \* ---- the broker's queues and the workers (SpecQueue)
    q,
    \* ---- the worker's clock on the job it runs (SpecLimits)
    lim,
    \* ---- the web process: one request and what follows it (SpecApi)
    api,
    \* ---- two workers, each running a job of its own (SpecJobs)
    jobs,
    \* ---- one invocation of _extract_segments (SpecSegments)
    seg

pipeVars == <<task, operations, inputExists, subtitleExists, listed, state,
              updates, tpc, epc, i, current_input, calls, result>>
vars == <<task, operations, inputExists, subtitleExists, listed, state, updates,
          tpc, epc, i, current_input, calls, result, wf, st, rd, q, lim, api, jobs, seg>>

(***************************************************************************)
(* Operation registry                                                      *)
(***************************************************************************)
AudioOperations == {"noise_reduction", "normalize_audio", "change_speed", "extract_segments"}
VideoOperations == {"extract_audio", "convert_format", "resize_video", "trim_video", "add_subtitles"}
\* Names a client may put in an operation list: the nine defined ones and one
\* that neither executor defines.
OperationNames == AudioOperations \cup VideoOperations \cup {"unknown_op"}

\* The task functions, the executor each one calls, and the operation list
\* the single-operation tasks pass.
AudioTasks == {"process_audio_task", "noise_reduction_task", "normalize_audio_task",
               "change_audio_speed_task"}
VideoTasks == {"process_video_task", "extract_audio_task", "convert_video_format_task"}
Tasks == AudioTasks \cup VideoTasks

\* The executor a caller runs: the task functions, and the two endpoints
\* of main.py that hand an executor to the background tasks.
Kind(t) == IF t \in AudioTasks \cup {"/process/audio"} THEN "audio" ELSE "video"

Defined(k) == IF k = "audio" THEN AudioOperations ELSE VideoOperations

FixedOperations(t) ==
    CASE t = "noise_reduction_task" -> <<"noise_reduction">>
      [] t = "normalize_audio_task" -> <<"normalize_audio">>
      [] t = "change_audio_speed_task" -> <<"change_speed">>
      [] t = "extract_audio_task" -> <<"extract_audio">>
      [] t = "convert_video_format_task" -> <<"convert_format">>

OpLists == UNION {[1..n -> OperationNames] : n \in 0..MaxOps}

TaskId == "t1"

(***************************************************************************)
(* Paths, errors, calls                                                    *)
(***************************************************************************)
NoPath == [dir |-> "none", task |-> "none", op |-> "none", step |-> 0, ext |-> "none"]
InputPath == [dir |-> "uploads", task |-> "none", op |-> "input", step |-> 0, ext |-> "in"]

\* _get_output_path: {output_dir}/{task_id}_{operation}_{step}.wav (.mp4 for video)
AudioOutputPath(task_id, operation, step) ==
    [dir |-> "processed", task |-> task_id, op |-> operation, step |-> step, ext |-> "wav"]
VideoOutputPath(task_id, operation, step) ==
    [dir |-> "processed", task |-> task_id, op |-> operation, step |-> step, ext |-> "mp4"]

NoErr == [exc |-> "none", fn |-> "none", step |-> 0]
\* str(e) of the exception a method raised: told apart by what raised it.
Err(exc, fn, step) == [exc |-> exc, fn |-> fn, step |-> step]

\* One invocation of an operation method: its arguments and how its own
\* tool invocation ended ("none": no exception).
Call(fn, step, in, out, exc) ==
    [fn |-> fn, step |-> step, input |-> in, output |-> out, exc |-> exc]

\* What an operation does: the methods invoked, and the path returned or the
\* exception raised.
Ret(cs, path) == [calls |-> cs, raised |-> FALSE, path |-> path, err |-> NoErr]
Raise(cs, err) == [calls |-> cs, raised |-> TRUE, path |-> NoPath, err |-> err]
After(c, r) == [r EXCEPT !.calls = <<c>> \o r.calls]

\* An operation with one tool invocation and no fallback: returns `ret` or
\* re-raises the tool's exception.
Simple(fn, step, in, out, ret) ==
    { Ret(<<Call(fn, step, in, out, "none")>>, ret),
      Raise(<<Call(fn, step, in, out, "Error")>>, Err("Error", fn, step)) }

(***************************************************************************)
(* AudioProcessor operations                                               *)
(***************************************************************************)
_fallback_noise_reduction(in, out, step) ==
    Simple("_fallback_noise_reduction", step, in, out, out)

\* Mutant: the fallback's output is dropped and the input path returned.
_noise_reduction_returning_input(in, out, step) ==
    { Ret(<<Call("_noise_reduction", step, in, out, "none")>>, out) }
    \cup { After(Call("_noise_reduction", step, in, out, "CalledProcessError"),
                 IF r.raised THEN r ELSE [r EXCEPT !.path = in]) :
             r \in _fallback_noise_reduction(in, out, step) }
    \cup { Raise(<<Call("_noise_reduction", step, in, out, "OSError")>>,
                 Err("OSError", "_noise_reduction", step)) }

\* sox succeeds; or sox exits non-zero (CalledProcessError) and the fallback
\* decides; or anything else is raised (sox cannot be started, the profile
\* cannot be removed) and is re-raised.
_noise_reduction(in, out, step) ==
    { Ret(<<Call("_noise_reduction", step, in, out, "none")>>, out) }
    \cup { After(Call("_noise_reduction", step, in, out, "CalledProcessError"), r) :
             r \in _fallback_noise_reduction(in, out, step) }
    \cup { Raise(<<Call("_noise_reduction", step, in, out, "OSError")>>,
                 Err("OSError", "_noise_reduction", step)) }

_fallback_normalize(in, out, step) ==
    Simple("_fallback_normalize", step, in, out, out)

\* Any exception of the loudnorm run leads to the fallback.
_normalize_audio(in, out, step) ==
    { Ret(<<Call("_normalize_audio", step, in, out, "none")>>, out) }
    \cup { After(Call("_normalize_audio", step, in, out, "Error"), r) :
             r \in _fallback_normalize(in, out, step) }

_change_speed(in, out, step) == Simple("_change_speed", step, in, out, out)

_extract_segments(in, out, step) == Simple("_extract_segments", step, in, out, out)

(***************************************************************************)
(* VideoProcessor operations                                               *)
(***************************************************************************)
\* output_path.replace('.mp4', '.' + audio_format), audio_format 'mp3'
_extract_audio(in, out, step) ==
    Simple("_extract_audio", step, in, [out EXCEPT !.ext = "mp3"],
           [out EXCEPT !.ext = "mp3"])

\* Path(output_path).with_suffix('.' + target_format), target_format 'mp4'
_convert_format(in, out, step) ==
    Simple("_convert_format", step, in, [out EXCEPT !.ext = "mp4"],
           [out EXCEPT !.ext = "mp4"])

_resize_video(in, out, step) == Simple("_resize_video", step, in, out, out)

_trim_video(in, out, step) == Simple("_trim_video", step, in, out, out)

\* Mutant: a missing subtitle file is an error.
_add_subtitles_requiring_file(in, out, step) ==
    IF ~subtitleExists
    THEN { Raise(<<Call("_add_subtitles", step, in, out, "FileNotFoundError")>>,
                 Err("FileNotFoundError", "_add_subtitles", step)) }
    ELSE Simple("_add_subtitles", step, in, out, out)

\* Without a subtitle file the method returns its input path; with one it
\* runs ffmpeg.
_add_subtitles(in, out, step) ==
    IF ~subtitleExists
    THEN { Ret(<<Call("_add_subtitles", step, in, out, "skipped")>>, in) }
    ELSE Simple("_add_subtitles", step, in, out, out)

\* The method of each operation name.
MethodOf(op) ==
    CASE op = "noise_reduction" -> "_noise_reduction"
      [] op = "normalize_audio" -> "_normalize_audio"
      [] op = "change_speed" -> "_change_speed"
      [] op = "extract_segments" -> "_extract_segments"
      [] op = "extract_audio" -> "_extract_audio"
      [] op = "convert_format" -> "_convert_format"
      [] op = "resize_video" -> "_resize_video"
      [] op = "trim_video" -> "_trim_video"
      [] op = "add_subtitles" -> "_add_subtitles"
      [] OTHER -> "none"

FallbackMethods == {"_fallback_noise_reduction", "_fallback_normalize"}

\* Mutant: the change_speed branch is missing from the chain.
process_audio_dispatch_without_change_speed(operation, in, out, step) ==
    CASE operation = "noise_reduction" -> _noise_reduction(in, out, step)
      [] operation = "normalize_audio" -> _normalize_audio(in, out, step)
      [] operation = "extract_segments" -> _extract_segments(in, out, step)
      [] OTHER -> { Ret(<<>>, in) }

\* The if/elif chain of process_audio: the outcomes of one loop iteration.
\* The empty set of calls with the unchanged input is the `continue` branch.
process_audio_dispatch(operation, in, out, step) ==
    CASE operation = "noise_reduction" -> _noise_reduction(in, out, step)
      [] operation = "normalize_audio" -> _normalize_audio(in, out, step)
      [] operation = "change_speed" -> _change_speed(in, out, step)
      [] operation = "extract_segments" -> _extract_segments(in, out, step)
      [] OTHER -> { Ret(<<>>, in) }

\* Mutant: an undefined name raises instead of being skipped.
process_video_dispatch_rejecting_unknown(operation, in, out, step) ==
    CASE operation = "extract_audio" -> _extract_audio(in, out, step)
      [] operation = "convert_format" -> _convert_format(in, out, step)
      [] operation = "resize_video" -> _resize_video(in, out, step)
      [] operation = "trim_video" -> _trim_video(in, out, step)
      [] operation = "add_subtitles" -> _add_subtitles(in, out, step)
      [] OTHER -> { Raise(<<>>, Err("ValueError", "process_video", step)) }

\* The if/elif chain of process_video.
process_video_dispatch(operation, in, out, step) ==
    CASE operation = "extract_audio" -> _extract_audio(in, out, step)
      [] operation = "convert_format" -> _convert_format(in, out, step)
      [] operation = "resize_video" -> _resize_video(in, out, step)
      [] operation = "trim_video" -> _trim_video(in, out, step)
      [] operation = "add_subtitles" -> _add_subtitles(in, out, step)
      [] OTHER -> { Ret(<<>>, in) }

(***************************************************************************)
(* The pipeline executor: process_audio / process_video                    *)
(***************************************************************************)
\* Mutant: the file name tells the deliveries of a job apart.
_get_output_path_per_delivery(k, task_id, operation, step) ==
    LET id == IF rd.delivery = 1 THEN task_id ELSE "t1_again"
    IN  IF k = "audio" THEN AudioOutputPath(id, operation, step)
        ELSE VideoOutputPath(id, operation, step)

_get_output_path(k, task_id, operation, step) ==
    IF k = "audio" THEN AudioOutputPath(task_id, operation, step)
    ELSE VideoOutputPath(task_id, operation, step)

Dispatch(k, operation, in, out, step) ==
    IF k = "audio" THEN process_audio_dispatch(operation, in, out, step)
    ELSE process_video_dispatch(operation, in, out, step)

\* Nothing is listed before cleanup_old_files_task has called list_files.
NoListing == [files |-> <<>>, cutoff_date |-> 0]

NoResult ==
    [status |-> "none", error |-> NoErr, output_path |-> NoPath, file_info |-> "none",
     storage_url |-> FALSE, remote_key |-> FALSE, download_url |-> FALSE,
     deleted_files |-> <<>>, errors |-> <<>>]

\* The `except Exception` of the executor: status failed, error str(e).
FailedResult(err) == [NoResult EXCEPT !.status = "failed", !.error = err]

CompletedResult(path, info) ==
    [NoResult EXCEPT !.status = "completed", !.output_path = path, !.file_info = info]

ExecutorName(k) == IF k = "audio" THEN "process_audio" ELSE "process_video"

\* Mutant: a job without operations is refused.
process_start_refusing_empty_list ==
    /\ tpc = "running" /\ epc = "start"
    /\ IF inputExists /\ operations # <<>>
       THEN /\ current_input' = InputPath
            /\ i' = 1
            /\ epc' = "loop"
            /\ UNCHANGED result
       ELSE /\ result' = FailedResult(Err("FileNotFoundError", ExecutorName(Kind(task)), 0))
            /\ epc' = "done"
            /\ UNCHANGED <<current_input, i>>
    /\ UNCHANGED <<task, operations, inputExists, subtitleExists, listed,
                   state, updates, tpc, calls, wf, st, rd, q, lim, api, jobs, seg>>

\* Entry of the executor: the existence check of the input file.
process_start ==
    /\ tpc = "running" /\ epc = "start"
    /\ IF inputExists
       THEN /\ current_input' = InputPath
            /\ i' = 1
            /\ epc' = "loop"
            /\ UNCHANGED result
       ELSE /\ result' = FailedResult(Err("FileNotFoundError", ExecutorName(Kind(task)), 0))
            /\ epc' = "done"
            /\ UNCHANGED <<current_input, i>>
    /\ UNCHANGED <<task, operations, inputExists, subtitleExists, listed,
                   state, updates, tpc, calls, wf, st, rd, q, lim, api, jobs, seg>>

\* Mutant: an operation's exception is logged and the loop goes on.
process_step_ignoring_failure ==
    /\ tpc = "running" /\ epc = "loop" /\ i <= Len(operations)
    /\ \E r \in Dispatch(Kind(task), operations[i], current_input,
                         _get_output_path(Kind(task), TaskId, operations[i], i - 1), i - 1) :
          /\ calls' = calls \o r.calls
          /\ current_input' = IF r.raised THEN current_input ELSE r.path
          /\ i' = i + 1
          /\ UNCHANGED <<result, epc>>
    /\ UNCHANGED <<task, operations, inputExists, subtitleExists, listed,
                   state, updates, tpc, wf, st, rd, q, lim, api, jobs, seg>>

\* One iteration of `for i, operation in enumerate(operations)`.
process_step ==
    /\ tpc = "running" /\ epc = "loop" /\ i <= Len(operations)
    /\ \E r \in Dispatch(Kind(task), operations[i], current_input,
                         _get_output_path(Kind(task), TaskId, operations[i], i - 1), i - 1) :
          /\ calls' = calls \o r.calls
          /\ IF r.raised
             THEN /\ result' = FailedResult(r.err)
                  /\ epc' = "done"
                  /\ UNCHANGED <<current_input, i>>
             ELSE /\ current_input' = r.path
                  /\ i' = i + 1
                  /\ UNCHANGED <<result, epc>>
    /\ UNCHANGED <<task, operations, inputExists, subtitleExists, listed,
                   state, updates, tpc, wf, st, rd, q, lim, api, jobs, seg>>

\* Mutant: the completed result names the job's input, not the path the
\* last operation returned.
process_finish_returning_input ==
    /\ tpc = "running" /\ epc = "loop" /\ i > Len(operations)
    /\ \E info \in {"info", "error"} :
          result' = CompletedResult(InputPath, info)
    /\ epc' = "done"
    /\ UNCHANGED <<task, operations, inputExists, subtitleExists, listed, state,
                   updates, tpc, i, current_input, calls, wf, st, rd, q, lim,
                   api, jobs, seg>>

\* After the loop: the probe of the final file (which reports its own
\* failure inside file_info) and the completed result.
process_finish ==
    /\ tpc = "running" /\ epc = "loop" /\ i > Len(operations)
    /\ \E info \in {"info", "error"} :
          result' = CompletedResult(current_input, info)
    /\ epc' = "done"
    /\ UNCHANGED <<task, operations, inputExists, subtitleExists, listed, state,
                   updates, tpc, i, current_input, calls, wf, st, rd, q, lim,
                   api, jobs, seg>>

(***************************************************************************)
(* The queue tasks of audio_tasks.py and video_tasks.py                    *)
(***************************************************************************)
Update(s, cur, tot) == [state |-> s, current |-> cur, total |-> tot]

\* `total` of the task's progress updates.
Total(t) == IF t \in {"process_audio_task", "process_video_task"}
            THEN Len(operations) ELSE 1

\* Mutant: the except branch records FAILURE and the task goes on.
task_begin_without_raise ==
    /\ task \in Tasks
    /\ tpc = "pending"
    /\ \E built \in BOOLEAN :
          IF built
          THEN /\ updates' = Append(updates, Update("PROGRESS", 0, Total(task)))
               /\ state' = "PROGRESS"
          ELSE /\ updates' = updates \o <<Update("PROGRESS", 0, Total(task)),
                                          Update("FAILURE", 0, 0)>>
               /\ state' = "FAILURE"
    /\ tpc' = "running"
    /\ UNCHANGED <<task, operations, inputExists, subtitleExists, listed, epc, i,
                   current_input, calls, result, wf, st, rd, q, lim,
                   api, jobs, seg>>

\* The task starts: the first update_state, then the services are built.
\* Building them can raise (os.makedirs): the except branch records FAILURE
\* and re-raises.
task_begin ==
    /\ task \in Tasks
    /\ tpc = "pending"
    /\ \E built \in BOOLEAN :
          IF built
          THEN /\ updates' = Append(updates, Update("PROGRESS", 0, Total(task)))
               /\ state' = "PROGRESS"
               /\ tpc' = "running"
          ELSE /\ updates' = updates \o <<Update("PROGRESS", 0, Total(task)),
                                          Update("FAILURE", 0, 0)>>
               /\ state' = "FAILURE"
               /\ tpc' = "raised"
    /\ UNCHANGED <<task, operations, inputExists, subtitleExists, listed, epc, i,
                   current_input, calls, result, wf, st, rd, q, lim,
                   api, jobs, seg>>

\* Only process_audio_task and process_video_task report 'Uploading to
\* storage' before the upload.
ReportsUpload(t) == t \in {"process_audio_task", "process_video_task"}

\* Whether the task asks for a signed URL: process_audio_task and
\* process_video_task always do, the single-operation tasks only after a
\* successful upload.
SignsUrl(t, uploaded) ==
    t \in {"process_audio_task", "process_video_task"} \/ uploaded

\* Mutant: the upload and the signed URL are asked for whatever the
\* executor's status.
task_finish_uploading_always ==
    /\ tpc = "running" /\ epc = "done"
    /\ \E uploaded \in BOOLEAN, signed \in BOOLEAN :
          /\ updates' = IF ReportsUpload(task)
                        THEN Append(updates, Update("PROGRESS", Len(operations),
                                                    Len(operations)))
                        ELSE updates
          /\ result' = [result EXCEPT !.storage_url = uploaded,
                                      !.remote_key = uploaded,
                                      !.download_url = SignsUrl(task, uploaded) /\ signed]
    /\ state' = "SUCCESS"
    /\ tpc' = "returned"
    /\ UNCHANGED <<task, operations, inputExists, subtitleExists, listed,
                   epc, i, current_input, calls, wf, st, rd, q, lim,
                   api, jobs, seg>>

\* The executor has returned: on 'completed' the upload and the signed URL,
\* then `return result` in every case; the worker records SUCCESS.
task_finish ==
    /\ tpc = "running" /\ epc = "done"
    /\ IF result.status = "completed"
       THEN \E uploaded \in BOOLEAN, signed \in BOOLEAN :
               /\ updates' = IF ReportsUpload(task)
                             THEN Append(updates, Update("PROGRESS", Len(operations),
                                                         Len(operations)))
                             ELSE updates
               /\ result' = [result EXCEPT !.storage_url = uploaded,
                                           !.remote_key = uploaded,
                                           !.download_url = SignsUrl(task, uploaded) /\ signed]
       ELSE UNCHANGED <<updates, result>>
    /\ state' = "SUCCESS"
    /\ tpc' = "returned"
    /\ UNCHANGED <<task, operations, inputExists, subtitleExists, listed,
                   epc, i, current_input, calls, wf, st, rd, q, lim,
                   api, jobs, seg>>

(***************************************************************************)
(* Specification of one queue task                                         *)
(***************************************************************************)
WfIdle == [pc |-> "idle"]
StIdle == [pc |-> "idle"]
QIdle == [pc |-> "idle"]
LimIdle == [pc |-> "idle"]
ApiIdle == [pc |-> "idle"]
JobsIdle == [pc |-> "idle"]
SegIdle == [pc |-> "idle"]

\* What is kept of a delivery's run when the job is delivered again.
NoRun == [calls |-> <<>>, result |-> NoResult]

\* The job is delivered for the first time.
FirstDelivery == [delivery |-> 1, first |-> NoRun]

Init ==
    /\ task \in Tasks
    /\ operations \in IF task \in {"process_audio_task", "process_video_task"}
                      THEN OpLists ELSE {FixedOperations(task)}
    /\ inputExists \in BOOLEAN
    /\ subtitleExists \in BOOLEAN
    /\ listed = NoListing
    /\ state = "PENDING"
    /\ updates = <<>>
    /\ tpc = "pending"
    /\ epc = "start"
    /\ i = 1
    /\ current_input = NoPath
    /\ calls = <<>>
    /\ result = NoResult
    /\ wf = WfIdle
    /\ st = StIdle
    /\ rd = FirstDelivery
    /\ q = QIdle
    /\ lim = LimIdle
    /\ api = ApiIdle
    /\ jobs = JobsIdle
    /\ seg = SegIdle

Next ==
    \/ task_begin
    \/ process_start
    \/ process_step
    \/ process_finish
    \/ task_finish

Spec == Init /\ [][Next]_vars

(***************************************************************************)
(* Properties of the executor and the tasks                                *)
(***************************************************************************)
Failure(c) == c.exc \notin {"none", "skipped"}

\* The invocations the executor's loop makes itself (not the fallbacks the
\* operations make).
PrimaryCalls == SelectSeq(calls, LAMBDA c : c.fn \notin FallbackMethods)

\* The 1-based positions of the names the executor defines, in list order.
DefinedPositions(ops, k) ==
    SelectSeq([j \in 1..Len(ops) |-> j], LAMBDA j : ops[j] \in Defined(k))

\* An invocation whose exception leaves the operation: the method has no
\* fallback, or it is the fallback itself.
Aborting(c) ==
    /\ Failure(c)
    /\ c.fn \notin {"_noise_reduction", "_normalize_audio"}

\* C1: with an existing input and every operation succeeding, the executor
\* invokes the method of each defined name of the list once per occurrence,
\* in list order, and invokes nothing for any other name.
C1_EachDefinedOperationOnceInOrder ==
    (inputExists /\ epc = "done" /\ result.status = "completed") =>
        /\ [k \in 1..Len(PrimaryCalls) |-> PrimaryCalls[k].step + 1]
             = DefinedPositions(operations, Kind(task))
        /\ \A k \in 1..Len(PrimaryCalls) :
              PrimaryCalls[k].fn = MethodOf(operations[PrimaryCalls[k].step + 1])

C1_Witness ==
    /\ epc = "done" /\ result.status = "completed"
    /\ Len(operations) = 2
    /\ operations[1] = operations[2]
    /\ Len(PrimaryCalls) = 2

\* C2: an invocation that fails with no fallback left is the last invocation
\* of the job, the executor's result is 'failed' (never 'completed'), and the
\* result's error is the message of that invocation's exception.
C2_FailureAbortsWithItsError ==
    \A k \in 1..Len(calls) :
        Aborting(calls[k]) =>
            /\ k = Len(calls)
            /\ epc = "done"
            /\ result.status = "failed"
            /\ result.error = Err(calls[k].exc, calls[k].fn, calls[k].step)

C2_Witness ==
    /\ tpc = "returned"
    /\ Len(operations) = 2
    /\ operations[2] \in Defined(Kind(task))
    /\ Len(calls) = 2
    /\ calls[2].fn = "_fallback_normalize"
    /\ Aborting(calls[2])

\* C3: when the executor reports a failed result, the queue job that ran it
\* ends in the state FAILURE and never in the successful terminal state.
C3_FailedResultMeansFailedJob ==
    (tpc \in {"returned", "raised"} /\ result.status = "failed") => state = "FAILURE"

FallbackOf(fn) ==
    CASE fn = "_noise_reduction" -> "_fallback_noise_reduction"
      [] fn = "_normalize_audio" -> "_fallback_normalize"
      [] OTHER -> "none"

\* C4: a failure of the primary method of noise_reduction or normalize_audio,
\* of any kind, is followed by one invocation of its fallback with the same
\* input and output paths; a fallback is invoked only right after such a
\* failure.
C4_FallbackOnAnyPrimaryFailure ==
    /\ \A k \in 1..Len(calls) :
          (calls[k].fn \in {"_noise_reduction", "_normalize_audio"} /\ Failure(calls[k])) =>
              /\ k < Len(calls)
              /\ calls[k + 1].fn = FallbackOf(calls[k].fn)
              /\ calls[k + 1].input = calls[k].input
              /\ calls[k + 1].output = calls[k].output
    /\ \A k \in 1..Len(calls) :
          calls[k].fn \in FallbackMethods =>
              /\ k > 1
              /\ FallbackOf(calls[k - 1].fn) = calls[k].fn
              /\ Failure(calls[k - 1])

\* The exception of invocation m left its operation: no fallback took over.
Fatal(m) ==
    /\ Failure(calls[m])
    /\ (m = Len(calls) \/ calls[m + 1].fn # FallbackOf(calls[m].fn))

\* A successful fallback of noise_reduction at position k of the calls.
FallbackHelped(k) ==
    /\ calls[k].fn = "_fallback_noise_reduction"
    /\ ~Failure(calls[k])

C6_UnknownOperationSkipped ==
    [][(tpc = "running" /\ epc = "loop" /\ i <= Len(operations)
        /\ operations[i] \notin Defined(Kind(task)))
       => (/\ calls' = calls
           /\ current_input' = current_input
           /\ result' = result
           /\ epc' = "loop"
           /\ i' = i + 1)]_vars

\* An unknown name first, a defined operation run after it, the job completed.
C6_Witness ==
    /\ tpc = "returned" /\ state = "SUCCESS" /\ result.status = "completed"
    /\ Len(operations) = 2
    /\ operations[1] \notin Defined(Kind(task))
    /\ Len(calls) = 1
    /\ calls[1].step = 1
    /\ calls[1].input = InputPath
    /\ Kind(task) = "video"

(***************************************************************************)
(* The AI collaborators and the workflow coordinator (ai_services.py)      *)
(***************************************************************************)
\* What a stage returns: a result mapping without "error", or {"error": ...}.
StageOk(by) == [ok |-> TRUE, by |-> by, error |-> "none"]
StageError(msg) == [ok |-> FALSE, by |-> "none", error |-> msg]

\* SpeechToTextService.transcribe_audio: a missing file, a model that does
\* not load and a failing transcription are all returned as {"error": ...}.
transcribe_audio(audio_path, files) ==
    IF audio_path \notin files
    THEN { StageError("Audio file not found") }
    ELSE { StageOk("whisper"), StageError("Failed to load Whisper model"),
           StageError("transcribe raised") }

\* TranslationService.translate_text
translate_text(client) ==
    IF ~client
    THEN { StageError("Google Translate client not available") }
    ELSE { StageOk("google"), StageError("translate raised") }

\* Mutant: a provider without a client falls back to the provider that has
\* one.
synthesize_speech_falling_back(provider, google_client, aws_client) ==
    IF provider = "google" /\ google_client
    THEN { StageOk("google"), StageError("Google TTS raised") }
    ELSE IF aws_client
    THEN { StageOk("aws"), StageError("AWS Polly raised") }
    ELSE IF google_client
    THEN { StageOk("google"), StageError("Google TTS raised") }
    ELSE { StageError("TTS provider not available") }

\* TextToSpeechService.synthesize_speech: the client of the named provider,
\* or an error when that provider has no client.
synthesize_speech(provider, google_client, aws_client) ==
    IF provider = "google" /\ google_client
    THEN { StageOk("google"), StageError("Google TTS raised") }
    ELSE IF provider = "aws" /\ aws_client
    THEN { StageOk("aws"), StageError("AWS Polly raised") }
    ELSE { StageError("TTS provider not available") }

\* The order of the coordinator's stages and the prefix it puts before the
\* error of each.
StageOrder == <<"transcribe", "translate", "synthesize">>

ErrorPrefix(stage) ==
    CASE stage = "transcribe" -> "Transcription failed"
      [] stage = "translate" -> "Translation failed"
      [] stage = "synthesize" -> "Speech synthesis failed"

NoWorkflowResult == [status |-> "none", prefix |-> "none", detail |-> "none"]

\* Mutant: the error of a stage is logged and the next stage runs.
StageReturned_going_on(stage, r, next) ==
    wf' = [wf EXCEPT
             !.stages = Append(@, [name |-> stage, ok |-> r.ok, by |-> r.by]),
             !.pc = next,
             !.tasks = IF next # "done" THEN @ ELSE Tail(@),
             !.result = IF next = "done"
                        THEN [status |-> "completed", prefix |-> "none", detail |-> "none"]
                        ELSE @]

\* One stage of process_audio_workflow has returned `r`: an error ends the
\* workflow with the wrapped error, anything else goes on to `next`.
StageReturned(stage, r, next) ==
    wf' = [wf EXCEPT
             !.stages = Append(@, [name |-> stage, ok |-> r.ok, by |-> r.by]),
             !.pc = IF r.ok THEN next ELSE "done",
             !.tasks = IF r.ok /\ next # "done" THEN @ ELSE Tail(@),
             !.result = IF ~r.ok
                        THEN [status |-> "error", prefix |-> ErrorPrefix(stage),
                              detail |-> r.error]
                        ELSE IF next = "done"
                        THEN [status |-> "completed", prefix |-> "none", detail |-> "none"]
                        ELSE @]

\* Step 1: runs when BackgroundTasks reaches process_audio_workflow.
process_audio_workflow_transcribe ==
    /\ wf.pc = "background"
    /\ wf.tasks # <<>> /\ Head(wf.tasks) = "process_audio_workflow"
    /\ \E r \in transcribe_audio(wf.audio_path, wf.files) :
          StageReturned("transcribe", r, "translate")
    /\ UNCHANGED <<pipeVars, st, rd, q, lim, api, jobs, seg>>

\* Step 2
process_audio_workflow_translate ==
    /\ wf.pc = "translate"
    /\ \E r \in translate_text(wf.translate_client) :
          StageReturned("translate", r, "synthesize")
    /\ UNCHANGED <<pipeVars, st, rd, q, lim, api, jobs, seg>>

\* Step 3: provider is left at its default, "google".
process_audio_workflow_synthesize ==
    /\ wf.pc = "synthesize"
    /\ \E r \in synthesize_speech("google", wf.google_client, wf.aws_client) :
          StageReturned("synthesize", r, "done")
    /\ UNCHANGED <<pipeVars, st, rd, q, lim, api, jobs, seg>>

(***************************************************************************)
(* DownloadService.download_video, run as a background task                *)
(***************************************************************************)
\* The file yt-dlp writes ({task_id}_{title}.{ext}) and the path the
\* workflow endpoint hands to the coordinator ({task_id}_downloaded).
DownloadedFile == "videos/dl1_title.ext"
GuessedFile == "videos/dl1_downloaded"
ClientFile == "client_file"

\* Every exception is turned into a result with status 'failed'.
download_video ==
    /\ wf.pc = "background"
    /\ wf.tasks # <<>> /\ Head(wf.tasks) = "download_video"
    /\ \E ok \in BOOLEAN :
          wf' = [wf EXCEPT
                   !.download = IF ok THEN "completed" ELSE "failed",
                   !.files = IF ok THEN @ \cup {DownloadedFile} ELSE @,
                   !.tasks = Tail(@)]
    /\ UNCHANGED <<pipeVars, st, rd, q, lim, api, jobs, seg>>

(***************************************************************************)
(* POST /ai/workflow (main.py)                                             *)
(***************************************************************************)
\* The handler: queues the background tasks and answers. The tasks run one
\* after the other, in the order added, once the response has been sent.
\* An exception in the handler (the 400 for a request with no input, or
\* parameters being null) is answered with 500 and no task runs.
ai_workflow ==
    /\ wf.pc = "request"
    /\ IF wf.input = "none" \/ wf.parameters = "null"
       THEN wf' = [wf EXCEPT !.pc = "done", !.response = 500]
       ELSE wf' = [wf EXCEPT
                     !.pc = "background",
                     !.response = 200,
                     !.download = IF wf.input = "url" THEN "started" ELSE "skipped",
                     !.audio_path = IF wf.input = "url" THEN GuessedFile ELSE ClientFile,
                     !.tasks = IF wf.input = "url"
                               THEN <<"download_video", "process_audio_workflow">>
                               ELSE <<"process_audio_workflow">>]
    /\ UNCHANGED <<pipeVars, st, rd, q, lim, api, jobs, seg>>

PipeIdle ==
    /\ task = "none"
    /\ operations = <<>>
    /\ inputExists = FALSE
    /\ subtitleExists = FALSE
    /\ listed = NoListing
    /\ state = "none"
    /\ updates = <<>>
    /\ tpc = "idle"
    /\ epc = "idle"
    /\ i = 1
    /\ current_input = NoPath
    /\ calls = <<>>
    /\ result = NoResult

InitWorkflow ==
    /\ PipeIdle
    /\ st = StIdle
    /\ rd = FirstDelivery
    /\ q = QIdle
    /\ lim = LimIdle
    /\ api = ApiIdle
    /\ jobs = JobsIdle
    /\ seg = SegIdle
    /\ \E input \in {"url", "file", "none"}, parameters \in {"mapping", "null"},
          client_file \in BOOLEAN, translate_client \in BOOLEAN,
          google_client \in BOOLEAN, aws_client \in BOOLEAN :
          wf = [pc |-> "request",
                input |-> input,
                parameters |-> parameters,
                files |-> IF client_file THEN {ClientFile} ELSE {},
                translate_client |-> translate_client,
                google_client |-> google_client,
                aws_client |-> aws_client,
                response |-> 0,
                download |-> "none",
                audio_path |-> "none",
                tasks |-> <<>>,
                stages |-> <<>>,
                result |-> NoWorkflowResult]

NextWorkflow ==
    \/ ai_workflow
    \/ download_video
    \/ process_audio_workflow_transcribe
    \/ process_audio_workflow_translate
    \/ process_audio_workflow_synthesize

SpecWorkflow == InitWorkflow /\ [][NextWorkflow]_vars

\* C7: the stages run in the order transcribe, translate, synthesize; a stage
\* is invoked only after every earlier one returned without error, nothing is
\* invoked after a stage that returned an error, and the workflow's error
\* carries the prefix of the stage that failed.
C7_StagesInOrderFailFast ==
    /\ Len(wf.stages) <= Len(StageOrder)
    /\ \A k \in 1..Len(wf.stages) :
          /\ wf.stages[k].name = StageOrder[k]
          /\ k < Len(wf.stages) => wf.stages[k].ok
          /\ ~wf.stages[k].ok =>
                /\ wf.pc = "done"
                /\ wf.result.status = "error"
                /\ wf.result.prefix = ErrorPrefix(wf.stages[k].name)
    /\ wf.result.status = "completed" =>
          /\ Len(wf.stages) = 3
          /\ \A k \in 1..3 : wf.stages[k].ok

\* A translation failure: synthesize never ran and the error names translation.
C7_Witness ==
    /\ wf.pc = "done"
    /\ Len(wf.stages) = 2
    /\ wf.stages[1].ok /\ ~wf.stages[2].ok
    /\ wf.result.prefix = "Translation failed"
    /\ wf.google_client

\* C8: with an input URL, transcribe is started only once the download has
\* ended completed, and never when the download failed.
C8_TranscribeOnlyAfterCompletedDownload ==
    (wf.input = "url" /\ Len(wf.stages) >= 1) => wf.download = "completed"

(***************************************************************************)
(* Storage (storage_service.py)                                            *)
(***************************************************************************)
\* Remote keys, as character sequences so that one can be a prefix of
\* another: "a", "ab" and "a/b".
Keys == { <<"a">>, <<"a", "b">>, <<"a", "/", "b">> }

IsPrefix(p, k) == Len(p) <= Len(k) /\ SubSeq(k, 1, Len(p)) = p

\* What a local file handed to upload_file can contain.
Contents == {"x", "y"}

\* os.path.basename(local_path) of the file handed to upload_file.
SourceName == <<"b">>

Slashes(k) == {p \in 1..Len(k) : k[p] = "/"}

\* The directories below storage_dir that
\* os.makedirs(os.path.dirname(dest_path), exist_ok=True) makes sure exist.
Ancestors(k) == {SubSeq(k, 1, p - 1) : p \in Slashes(k)}

\* Stored objects are records [key, content].
KeysOf(objs) == {o.key : o \in objs}

\* upload_fileobj(Key=remote_key) / the file copy of shutil.copy2: the object
\* of that key is replaced.
Put(objs, key, content) ==
    {o \in objs : o.key # key} \cup {[key |-> key, content |-> content]}

\* Mutant: nothing is removed.
Remove_nothing(objs, key) == objs

\* delete_object(Key=remote_key) / os.remove(file_path)
Remove(objs, key) == {o \in objs : o.key # key}

\* A value of one of the four environment variables; None and the empty
\* string are both falsy.
EnvValues == {"unset", "empty", "set"}

Truthy(v) == v = "set"

\* `all([account_id, access_key, secret_key, self.bucket_name])`
AllCredentials(env) ==
    /\ Truthy(env.account_id)
    /\ Truthy(env.access_key)
    /\ Truthy(env.secret_key)
    /\ Truthy(env.bucket_name)

ProbeOutcomes == {"ok", "ClientError", "NoCredentialsError", "Exception"}

\* Mutant: the client is built whenever a bucket name is given.
_initialize_client_bucket_only(env, created, probe) ==
    Truthy(env.bucket_name) /\ created

\* CloudflareR2Service._initialize_client: whether self.client is set when it
\* returns. Without the full credential set it returns before building the
\* client; boto3.client may raise (`created` false); head_bucket runs after
\* self.client has been assigned, and its exceptions are only logged.
_initialize_client(env, created, probe) ==
    AllCredentials(env) /\ created

\* CloudflareR2Service.is_available
is_available == st.client

\* StorageManager.__init__: the choice of primary_service.
PrimaryService(r2_available) == IF r2_available THEN "cloudflare_r2" ELSE "local"

\* StorageManager.get_storage_type
get_storage_type == IF is_available THEN "cloudflare_r2" ELSE "local"

\* What a storage call hands back: a dictionary with the key "success", a
\* dictionary with the key "error", or an exception that leaves the call.
SuccessValue == [success |-> TRUE, error |-> FALSE, raised |-> FALSE]
ErrorValue == [success |-> FALSE, error |-> TRUE, raised |-> FALSE]

\* What the backend can raise inside a call: boto3 raises ClientError and
\* other exceptions, the file system only the latter; the local
\* generate_signed_url calls nothing that raises.
Exceptions == {"none", "ClientError", "Exception"}

Raisable(b, op) ==
    IF b = "cloudflare_r2" THEN Exceptions
    ELSE IF op = "generate_signed_url" THEN {"none"}
    ELSE {"none", "Exception"}

\* Mutant: only ClientError is caught.
Caught_only_ClientError(exc) ==
    IF exc = "ClientError" THEN ErrorValue
    ELSE [success |-> FALSE, error |-> FALSE, raised |-> TRUE]

\* `except ClientError as e: return {"error": ...}` followed by
\* `except Exception as e: return {"error": str(e)}`
Caught(exc) == ErrorValue

\* The outcome of one service method: the value returned, the objects (and
\* for the local backend the directories) afterwards, and the listing.
Outcome(ret, files, dirs, entries) ==
    [ret |-> ret, files |-> files, dirs |-> dirs, entries |-> entries]

\* CloudflareR2Service.upload_file
CloudflareR2Service_upload_file(key, exists, content, exc) ==
    IF ~st.client THEN Outcome(ErrorValue, st.r2, st.dirs, {})
    ELSE IF ~exists THEN Outcome(ErrorValue, st.r2, st.dirs, {})
    ELSE IF exc # "none" THEN Outcome(Caught(exc), st.r2, st.dirs, {})
    ELSE Outcome(SuccessValue, Put(st.r2, key, content), st.dirs, {})

\* CloudflareR2Service.generate_signed_url: the URL is presigned without
\* looking at the bucket.
CloudflareR2Service_generate_signed_url(key, exc) ==
    IF ~st.client THEN Outcome(ErrorValue, st.r2, st.dirs, {})
    ELSE IF exc # "none" THEN Outcome(Caught(exc), st.r2, st.dirs, {})
    ELSE Outcome(SuccessValue, st.r2, st.dirs, {})

\* CloudflareR2Service.delete_file
CloudflareR2Service_delete_file(key, exc) ==
    IF ~st.client THEN Outcome(ErrorValue, st.r2, st.dirs, {})
    ELSE IF exc # "none" THEN Outcome(Caught(exc), st.r2, st.dirs, {})
    ELSE Outcome(SuccessValue, Remove(st.r2, key), st.dirs, {})

\* CloudflareR2Service.list_files: list_objects_v2(Prefix=prefix)
CloudflareR2Service_list_files(prefix, exc) ==
    IF ~st.client THEN Outcome(ErrorValue, st.r2, st.dirs, {})
    ELSE IF exc # "none" THEN Outcome(Caught(exc), st.r2, st.dirs, {})
    ELSE Outcome(SuccessValue, st.r2, st.dirs,
                 {o \in st.r2 : IsPrefix(prefix, o.key)})

\* LocalStorageService.upload_file: os.makedirs raises when an ancestor of
\* the destination is a file; shutil.copy2 copies INTO the destination when
\* it is a directory, under the base name of the source; `exc` is what the
\* copy raises before it writes.
LocalStorageService_upload_file(key, exists, content, exc) ==
    LET dirs == st.dirs \cup Ancestors(key)
        dest == IF key \in dirs THEN key \o <<"/">> \o SourceName ELSE key
    IN  IF ~exists THEN Outcome(ErrorValue, st.local, st.dirs, {})
        ELSE IF Ancestors(key) \cap KeysOf(st.local) # {}
             THEN Outcome(Caught("Exception"), st.local, st.dirs, {})
        ELSE IF dest \in dirs THEN Outcome(Caught("Exception"), st.local, dirs, {})
        ELSE IF exc # "none" THEN Outcome(Caught(exc), st.local, dirs, {})
        ELSE Outcome(SuccessValue, Put(st.local, dest, content), dirs, {})

\* LocalStorageService.generate_signed_url: os.path.exists(file_path) holds
\* of files and of directories.
LocalStorageService_generate_signed_url(key, exc) ==
    IF exc # "none" THEN Outcome(Caught(exc), st.local, st.dirs, {})
    ELSE IF key \notin KeysOf(st.local) \cup st.dirs
         THEN Outcome(ErrorValue, st.local, st.dirs, {})
    ELSE Outcome(SuccessValue, st.local, st.dirs, {})

\* LocalStorageService.delete_file: os.remove raises on a directory; a path
\* that does not exist is reported deleted.
LocalStorageService_delete_file(key, exc) ==
    IF key \in st.dirs THEN Outcome(Caught("Exception"), st.local, st.dirs, {})
    ELSE IF key \in KeysOf(st.local)
         THEN IF exc # "none"
              THEN Outcome(Caught(exc), st.local, st.dirs, {})
              ELSE Outcome(SuccessValue, Remove(st.local, key), st.dirs, {})
    ELSE Outcome(SuccessValue, st.local, st.dirs, {})

\* LocalStorageService.list_files: every file below storage_dir whose
\* relative path starts with the prefix.
LocalStorageService_list_files(prefix, exc) ==
    IF exc # "none" THEN Outcome(Caught(exc), st.local, st.dirs, {})
    ELSE Outcome(SuccessValue, st.local, st.dirs,
                 {o \in st.local : IsPrefix(prefix, o.key)})

NoPrior == [op |-> "none", content |-> "none"]

NoCall == [op |-> "none", key |-> <<>>, backend |-> "none", success |-> FALSE,
           error |-> FALSE, raised |-> FALSE, fault |-> FALSE,
           content |-> "none", entries |-> {}, prior |-> NoPrior]

\* The record of one call on the StorageManager: what was asked, which
\* backend served it, what came back, whether the backend raised inside it,
\* the content uploaded (upload_file) or found stored under the key
\* beforehand (delete_file), the listing (list_files), and the call made
\* just before it when that one makes a round trip with it.
Served(op, key, backend, ret, fault, content, entries) ==
    [op |-> op, key |-> key, backend |-> backend, success |-> ret.success,
     error |-> ret.error, raised |-> ret.raised, fault |-> fault,
     content |-> content, entries |-> entries, prior |-> NoPrior]

\* The two-call sequences remembered: upload then sign, delete then list.
RoundTrips == { <<"upload_file", "generate_signed_url">>,
                <<"delete_file", "list_files">> }

\* The call before `call`, when it succeeded on the same key and makes a
\* round trip with it.
Prior(call) ==
    IF st.last.success /\ st.last.key = call.key
                       /\ <<st.last.op, call.op>> \in RoundTrips
    THEN [op |-> st.last.op, content |-> st.last.content]
    ELSE NoPrior

\* StorageManager(): both services are built and the primary one chosen.
StorageManager_init ==
    /\ st.pc = "boot"
    /\ \E created \in BOOLEAN, probe \in ProbeOutcomes :
          LET ran == AllCredentials(st.env) /\ created
              client == _initialize_client(st.env, created, probe)
          IN  st' = [st EXCEPT !.pc = "ready",
                               !.client = client,
                               !.probe = IF ran THEN probe ELSE "not_run",
                               !.primary_service = PrimaryService(client)]
    /\ UNCHANGED <<pipeVars, wf, rd, q, lim, api, jobs, seg>>

\* The objects of the backend named `b`.
Objects(b) == IF b = "cloudflare_r2" THEN st.r2 ELSE st.local

\* What is stored under `key` in backend `b`.
Stored(b, key) ==
    IF key \in KeysOf(Objects(b))
    THEN (CHOOSE o \in Objects(b) : o.key = key).content
    ELSE "none"

\* What the URL of a successful generate_signed_url(key) designates: the
\* object of that key in the bucket, or the path storage_dir/key.
Deref(b, key) ==
    IF b = "local" /\ key \in st.dirs THEN "directory"
    ELSE IF key \in KeysOf(Objects(b)) THEN Stored(b, key)
    ELSE "missing"

\* The state after the primary service `b` has served a call with outcome o.
WithOutcome(b, o, call) ==
    IF b = "cloudflare_r2"
    THEN [st EXCEPT !.r2 = o.files,
                    !.last = [call EXCEPT !.prior = Prior(call)]]
    ELSE [st EXCEPT !.local = o.files, !.dirs = o.dirs,
                    !.last = [call EXCEPT !.prior = Prior(call)]]

\* StorageManager.upload_file(local_path, remote_key)
upload_file ==
    /\ st.pc = "ready"
    /\ \E key \in Keys, source \in Contents \cup {"none"},
          exc \in Raisable(st.primary_service, "upload_file") :
          LET b == st.primary_service
              exists == source # "none"
              o == IF b = "cloudflare_r2"
                   THEN CloudflareR2Service_upload_file(key, exists, source, exc)
                   ELSE LocalStorageService_upload_file(key, exists, source, exc)
          IN  st' = WithOutcome(b, o,
                        Served("upload_file", key, b, o.ret, exists /\ exc # "none",
                               source, {}))
    /\ UNCHANGED <<pipeVars, wf, rd, q, lim, api, jobs, seg>>

\* StorageManager.generate_signed_url(remote_key)
generate_signed_url ==
    /\ st.pc = "ready"
    /\ \E key \in Keys, exc \in Raisable(st.primary_service, "generate_signed_url") :
          LET b == st.primary_service
              o == IF b = "cloudflare_r2"
                   THEN CloudflareR2Service_generate_signed_url(key, exc)
                   ELSE LocalStorageService_generate_signed_url(key, exc)
          IN  st' = WithOutcome(b, o,
                        Served("generate_signed_url", key, b, o.ret, exc # "none",
                               "none", {}))
    /\ UNCHANGED <<pipeVars, wf, rd, q, lim, api, jobs, seg>>

\* StorageManager.delete_file(remote_key)
delete_file ==
    /\ st.pc = "ready"
    /\ \E key \in Keys, exc \in Raisable(st.primary_service, "delete_file") :
          LET b == st.primary_service
              o == IF b = "cloudflare_r2"
                   THEN CloudflareR2Service_delete_file(key, exc)
                   ELSE LocalStorageService_delete_file(key, exc)
          IN  st' = WithOutcome(b, o,
                        Served("delete_file", key, b, o.ret, exc # "none",
                               Stored(b, key), {}))
    /\ UNCHANGED <<pipeVars, wf, rd, q, lim, api, jobs, seg>>

\* StorageManager.list_files(prefix)
list_files ==
    /\ st.pc = "ready"
    /\ \E prefix \in Keys \cup {<<>>}, exc \in Raisable(st.primary_service, "list_files") :
          LET b == st.primary_service
              o == IF b = "cloudflare_r2"
                   THEN CloudflareR2Service_list_files(prefix, exc)
                   ELSE LocalStorageService_list_files(prefix, exc)
          IN  st' = WithOutcome(b, o,
                        Served("list_files", prefix, b, o.ret, exc # "none",
                               "none", o.entries))
    /\ UNCHANGED <<pipeVars, wf, rd, q, lim, api, jobs, seg>>

InitStorage ==
    /\ PipeIdle
    /\ wf = WfIdle
    /\ rd = FirstDelivery
    /\ q = QIdle
    /\ lim = LimIdle
    /\ api = ApiIdle
    /\ jobs = JobsIdle
    /\ seg = SegIdle
    /\ \E env \in [account_id : EnvValues, access_key : EnvValues,
                   secret_key : EnvValues, bucket_name : EnvValues] :
          st = [pc |-> "boot",
                env |-> env,
                client |-> FALSE,
                probe |-> "not_run",
                primary_service |-> "none",
                local |-> {},
                dirs |-> {},
                r2 |-> {},
                last |-> NoCall]

NextStorage ==
    \/ StorageManager_init
    \/ upload_file
    \/ generate_signed_url
    \/ delete_file
    \/ list_files

SpecStorage == InitStorage /\ [][NextStorage]_vars

\* C9: get_storage_type() reports local whenever one of the four credentials
\* is unset, and the remote backend when all four are set and the probe
\* succeeded; every upload, sign-URL, delete and list call is served by the
\* backend get_storage_type() reports.
C9_BackendSelection ==
    st.pc = "ready" =>
        /\ ~AllCredentials(st.env) => get_storage_type = "local"
        /\ (AllCredentials(st.env) /\ st.probe = "ok") => get_storage_type = "cloudflare_r2"
        /\ st.last.op # "none" => st.last.backend = get_storage_type

\* All four credentials set, the probe succeeded, and an upload was served
\* by the remote backend.
C9_Witness ==
    /\ st.pc = "ready"
    /\ AllCredentials(st.env) /\ st.probe = "ok"
    /\ get_storage_type = "cloudflare_r2"
    /\ st.last.op = "upload_file" /\ st.last.success
    /\ st.last.backend = "cloudflare_r2"
    /\ st.last.key \in KeysOf(st.r2)

\* C10: with the full credential set and a failed probe the remote backend is
\* not active: is_available() is false, get_storage_type() reports local and
\* the local backend serves the calls.
C10_FailedProbeMeansLocal ==
    (st.pc = "ready" /\ AllCredentials(st.env) /\ st.probe \notin {"ok", "not_run"}) =>
        /\ ~is_available
        /\ get_storage_type = "local"
        /\ st.primary_service = "local"
        /\ st.last.op # "none" => st.last.backend = "local"

\* C11: every upload_file, generate_signed_url, delete_file and list_files
\* call, on either backend and whatever the backend raises inside it, hands
\* back either a success value or an error value: none raises past the
\* storage component and no value is both a success and an error.
C11_CallsReturnSuccessOrError ==
    st.last.op # "none" =>
        /\ ~st.last.raised
        /\ st.last.success \/ st.last.error
        /\ ~(st.last.success /\ st.last.error)

\* The remote backend raised inside a delete_file call of a stored object,
\* and the call handed back an error value.
C11_Witness ==
    /\ st.last.op = "delete_file"
    /\ st.last.backend = "cloudflare_r2"
    /\ st.last.content \in Contents
    /\ st.last.fault
    /\ st.last.error /\ ~st.last.success /\ ~st.last.raised

\* C12: right after a successful upload_file(local_path, key), a
\* generate_signed_url(key) in which the backend raises nothing succeeds, and
\* its URL designates the object stored under key, whose content is the one
\* local_path had when it was uploaded.
C12_UploadThenSignRoundTrip ==
    (/\ st.last.op = "generate_signed_url"
     /\ st.last.prior.op = "upload_file"
     /\ ~st.last.fault) =>
        /\ st.last.success
        /\ Deref(st.last.backend, st.last.key) = st.last.prior.content

\* C13 as stated: right after a successful delete_file(key), a successful
\* list_files(prefix=key) returns no entry at all.
C13_DeleteThenListEmpty ==
    (/\ st.last.op = "list_files"
     /\ st.last.success
     /\ st.last.prior.op = "delete_file") =>
        st.last.entries = {}

\* C13: right after a successful delete_file(key), a successful
\* list_files(prefix=key) returns no entry whose key is key; what it returns
\* are the stored objects of other keys that start with key.
C13_DeleteThenListOmitsKey ==
    (/\ st.last.op = "list_files"
     /\ st.last.success
     /\ st.last.prior.op = "delete_file") =>
        /\ st.last.key \notin KeysOf(st.last.entries)
        /\ \A e \in st.last.entries :
              /\ e.key # st.last.key
              /\ IsPrefix(st.last.key, e.key)
              /\ e \in Objects(st.last.backend)

\* A delete_file removed a stored object, and the listing under its key
\* right after it still shows an object of a longer key.
C13_Witness ==
    /\ st.last.op = "list_files"
    /\ st.last.success
    /\ st.last.prior.op = "delete_file"
    /\ st.last.prior.content \in Contents
    /\ st.last.entries # {}
    /\ st.last.key \notin KeysOf(Objects(st.last.backend))

\* C14: a listing has at most one entry per key, a backend holds at most one
\* object per key, and after a successful upload_file(local_path, key) the
\* object stored under key is the one that upload wrote.
C14_OneObjectPerKeyLastWriterWins ==
    /\ (st.last.op = "list_files" /\ st.last.success) =>
          \A e1, e2 \in st.last.entries : e1.key = e2.key => e1 = e2
    /\ \A b \in {"cloudflare_r2", "local"} :
          \A o1, o2 \in Objects(b) : o1.key = o2.key => o1 = o2
    /\ (st.last.op = "upload_file" /\ st.last.success) =>
          Stored(st.last.backend, st.last.key) = st.last.content

(***************************************************************************)
(* Redelivery: the broker hands the same job, under the same task id, to a *)
(* worker a second time (celery_app.py: task_acks_late,                    *)
(* task_reject_on_worker_lost)                                             *)
(***************************************************************************)
\* os.path.basename(output_path)
basename(path) == [path EXCEPT !.dir = "none"]

\* f"processed/audio/{task_id}_{os.path.basename(output_path)}" in the audio
\* tasks and in extract_audio_task, processed/video/... in the other video
\* tasks.
RemoteKey(t, task_id, output_path) ==
    [category |-> IF t \in AudioTasks \cup {"extract_audio_task"}
                  THEN "processed/audio" ELSE "processed/video",
     task |-> task_id,
     name |-> basename(output_path)]

\* The keys a run has uploaded to: result['remote_key'] is set when the
\* upload succeeded.
Uploaded(res) ==
    IF res.remote_key THEN {RemoteKey(task, TaskId, res.output_path)} ELSE {}

\* The job is delivered again: after the worker that ran it was lost, or
\* after it ended and the acknowledgement did not reach the broker. The
\* task function starts over with the same arguments and the same
\* self.request.id.
redeliver ==
    /\ rd.delivery = 1
    /\ tpc # "pending"
    /\ rd' = [delivery |-> 2, first |-> [calls |-> calls, result |-> result]]
    /\ tpc' = "pending"
    /\ epc' = "start"
    /\ i' = 1
    /\ current_input' = NoPath
    /\ calls' = <<>>
    /\ result' = NoResult
    /\ UNCHANGED <<task, operations, inputExists, subtitleExists, listed, state,
                   updates, wf, st, q, lim, api, jobs, seg>>

NextRedelivery ==
    \/ task_begin
    \/ process_start
    \/ process_step
    \/ process_finish
    \/ task_finish
    \/ redeliver

SpecRedelivery == Init /\ [][NextRedelivery]_vars

MaxFiles == 2
MaxDays == 2

AudioPath == "audio_path"

\* AIWorkflowService.process_audio_workflow as the task sees it: the result
\* has status 'completed' when the three stages returned no error, and is
\* {"error": ...} without a status otherwise.
process_audio_workflow(audio_exists, translate_client, google_client, aws_client) ==
    { IF r1.ok /\ r2.ok /\ r3.ok THEN "completed" ELSE "none" :
        r1 \in transcribe_audio(AudioPath, IF audio_exists THEN {AudioPath} ELSE {}),
        r2 \in translate_text(translate_client),
        r3 \in synthesize_speech("google", google_client, aws_client) }

\* ai_workflow_task up to the call of the workflow: the services are built
\* first (building them can raise: the except branch records FAILURE and
\* re-raises), then the three progress updates follow one another.
ai_workflow_task_begin ==
    /\ task = "ai_workflow_task"
    /\ tpc = "pending"
    /\ \E built \in BOOLEAN :
          IF built
          THEN /\ updates' = updates \o <<Update("PROGRESS", 1, 4),
                                          Update("PROGRESS", 2, 4),
                                          Update("PROGRESS", 3, 4)>>
               /\ state' = "PROGRESS"
               /\ tpc' = "workflow"
          ELSE /\ updates' = Append(updates, Update("FAILURE", 0, 0))
               /\ state' = "FAILURE"
               /\ tpc' = "raised"
    /\ UNCHANGED <<task, operations, inputExists, subtitleExists, listed, epc, i,
                   current_input, calls, result, wf, st, rd, q, lim,
                   api, jobs, seg>>

\* The workflow has returned: on 'completed' the fourth update, the upload
\* and (after a successful upload) the signed URL; `return result` in every
\* case.
ai_workflow_task_finish ==
    /\ task = "ai_workflow_task"
    /\ tpc = "workflow"
    /\ \E translate_client \in BOOLEAN, google_client \in BOOLEAN,
          aws_client \in BOOLEAN :
        \E status \in process_audio_workflow(inputExists, translate_client,
                                             google_client, aws_client) :
          IF status = "completed"
          THEN \E uploaded \in BOOLEAN, signed \in BOOLEAN :
                  /\ updates' = Append(updates, Update("PROGRESS", 4, 4))
                  /\ result' = [NoResult EXCEPT !.status = "completed",
                                                !.storage_url = uploaded,
                                                !.remote_key = uploaded,
                                                !.download_url = uploaded /\ signed]
          ELSE /\ updates' = updates
               /\ result' = [NoResult EXCEPT
                               !.error = Err("none", "process_audio_workflow", 0)]
    /\ state' = "SUCCESS"
    /\ tpc' = "returned"
    /\ UNCHANGED <<task, operations, inputExists, subtitleExists, listed,
                   epc, i, current_input, calls, wf, st, rd, q, lim,
                   api, jobs, seg>>

\* The keys of a listing: list_objects_v2 names every object of the bucket
\* once and os.walk names every file of the directory once, so the j-th
\* entry's key is told from the others by j.
\* last_modified is the object's day and whether its ISO text carries an
\* offset: R2 formats boto3's timezone-aware LastModified, local storage
\* formats datetime.fromtimestamp(st_mtime), which carries none.
Listings(storage) ==
    UNION { [1..n -> [last_modified : [day : 0..MaxDays,
                                       aware : {storage = "cloudflare_r2"}]]]
            : n \in 0..MaxFiles }

\* datetime.fromisoformat(...) < cutoff_date. cutoff_date is
\* datetime.now() - timedelta(...), which carries no offset; comparing it
\* with an offset-aware date raises TypeError.
file_date_before_cutoff(file_info, cutoff_date) ==
    IF file_info.last_modified.aware
    THEN "TypeError"
    ELSE IF file_info.last_modified.day < cutoff_date THEN "older" ELSE "kept"

\* cleanup_old_files_task up to the loop: the first update, the storage
\* manager, the listing and the cutoff date. A listing that did not succeed
\* returns {'error': 'Failed to list files'}.
cleanup_old_files_task_begin ==
    /\ task = "cleanup_old_files_task"
    /\ tpc = "pending"
    /\ \E built \in BOOLEAN, success \in BOOLEAN,
          storage \in {"cloudflare_r2", "local"}, cutoff_date \in 0..MaxDays :
       \E files \in Listings(storage) :
          IF ~built
          THEN /\ updates' = updates \o <<Update("PROGRESS", 0, 1),
                                          Update("FAILURE", 0, 0)>>
               /\ state' = "FAILURE"
               /\ tpc' = "raised"
               /\ UNCHANGED <<listed, result>>
          ELSE /\ updates' = Append(updates, Update("PROGRESS", 0, 1))
               /\ IF success
                  THEN /\ listed' = [files |-> files,
                                     cutoff_date |-> cutoff_date]
                       /\ state' = "PROGRESS"
                       /\ tpc' = "loop"
                       /\ result' = result
                  ELSE /\ listed' = listed
                       /\ state' = "SUCCESS"
                       /\ tpc' = "returned"
                       /\ result' = [NoResult EXCEPT
                                       !.error = Err("none", "list_files", 0)]
    /\ UNCHANGED <<task, operations, inputExists, subtitleExists, epc, i,
                   current_input, calls, wf, st, rd, q, lim, api, jobs, seg>>

\* Mutant: a file dated exactly at the cutoff is deleted as well.
cleanup_old_files_task_step_deleting_at_cutoff ==
    /\ task = "cleanup_old_files_task"
    /\ tpc = "loop"
    /\ i <= Len(listed.files)
    /\ updates' = Append(updates,
                         Update("PROGRESS", i - 1, Len(listed.files)))
    /\ \E deleted \in BOOLEAN :
          LET file_info == listed.files[i]
              aged == IF file_info.last_modified.aware
                      THEN "TypeError"
                      ELSE IF file_info.last_modified.day <= listed.cutoff_date
                           THEN "older" ELSE "kept"
          IN  result' =
                 CASE aged = "TypeError" ->
                        [result EXCEPT !.errors =
                            Append(@, [file |-> i, error |-> "date"])]
                   [] aged = "older" /\ deleted ->
                        [result EXCEPT !.deleted_files = Append(@, i)]
                   [] aged = "older" /\ ~deleted ->
                        [result EXCEPT !.errors =
                            Append(@, [file |-> i, error |-> "delete"])]
                   [] OTHER -> result
    /\ i' = i + 1
    /\ UNCHANGED <<task, operations, inputExists, subtitleExists, listed, state,
                   tpc, epc, current_input, calls, wf, st, rd, q, lim,
                   api, jobs, seg>>

\* One turn of `for i, file_info in enumerate(files)`: the update (current
\* counts from 0), then the date test and the delete. A date that cannot be
\* compared is caught inside the loop and noted in errors; a date before the
\* cutoff has the file deleted, and delete_file's answer puts the key in
\* deleted_files or in errors; any other file is left alone. The loop goes
\* on to the next file in every case. deleted_files and errors are kept in
\* result, where the return statement puts them.
cleanup_old_files_task_step ==
    /\ task = "cleanup_old_files_task"
    /\ tpc = "loop"
    /\ i <= Len(listed.files)
    /\ updates' = Append(updates,
                         Update("PROGRESS", i - 1, Len(listed.files)))
    /\ \E deleted \in BOOLEAN :
          LET file_info == listed.files[i]
              aged == file_date_before_cutoff(file_info, listed.cutoff_date)
          IN  result' =
                 CASE aged = "TypeError" ->
                        [result EXCEPT !.errors =
                            Append(@, [file |-> i, error |-> "date"])]
                   [] aged = "older" /\ deleted ->
                        [result EXCEPT !.deleted_files = Append(@, i)]
                   [] aged = "older" /\ ~deleted ->
                        [result EXCEPT !.errors =
                            Append(@, [file |-> i, error |-> "delete"])]
                   [] OTHER -> result
    /\ i' = i + 1
    /\ UNCHANGED <<task, operations, inputExists, subtitleExists, listed, state,
                   tpc, epc, current_input, calls, wf, st, rd, q, lim,
                   api, jobs, seg>>

\* The loop is over: the summary is returned.
cleanup_old_files_task_finish ==
    /\ task = "cleanup_old_files_task"
    /\ tpc = "loop"
    /\ i > Len(listed.files)
    /\ result' = [result EXCEPT !.status = "completed"]
    /\ state' = "SUCCESS"
    /\ tpc' = "returned"
    /\ UNCHANGED <<task, operations, inputExists, subtitleExists, listed, updates,
                   epc, i, current_input, calls, wf, st, rd, q, lim,
                   api, jobs, seg>>

\* One queue task of any of the three kinds.
InitTasks ==
    \/ Init
    \/ /\ task \in {"ai_workflow_task", "cleanup_old_files_task"}
       /\ operations = <<>>
       /\ inputExists \in IF task = "ai_workflow_task" THEN BOOLEAN ELSE {FALSE}
       /\ subtitleExists = FALSE
       /\ listed = NoListing
       /\ state = "PENDING"
       /\ updates = <<>>
       /\ tpc = "pending"
       /\ epc = "start"
       /\ i = 1
       /\ current_input = NoPath
       /\ calls = <<>>
       /\ result = NoResult
       /\ wf = WfIdle
       /\ st = StIdle
       /\ rd = FirstDelivery
       /\ q = QIdle
       /\ lim = LimIdle
       /\ api = ApiIdle
       /\ jobs = JobsIdle
       /\ seg = SegIdle

NextTasks ==
    \/ Next
    \/ ai_workflow_task_begin
    \/ ai_workflow_task_finish
    \/ cleanup_old_files_task_begin
    \/ cleanup_old_files_task_step
    \/ cleanup_old_files_task_finish

SpecTasks == InitTasks /\ [][NextTasks]_vars

TerminalStates == {"SUCCESS", "FAILURE"}

JobIds == {"j1", "j2"}
Slots == {"s1", "s2"}

\* Pool processes lost while they run a job.
MaxLosses == 1

\* Mutant: the setting is left at the library's default.
task_acks_late_default == FALSE

task_acks_late == TRUE

task_reject_on_worker_lost == TRUE

\* Mutant: two messages are reserved for every pool process.
worker_prefetch_multiplier_two == 1 + 1

worker_prefetch_multiplier == 1

\* Task functions a client enqueues, one or two of each module.
QueueTasks == {"process_video_task", "extract_audio_task", "process_audio_task",
               "ai_workflow_task", "cleanup_old_files_task"}

\* The module that defines a task function; the task's name is
\* {module}.{function}.
Module(t) ==
    CASE t \in VideoTasks -> "tasks.video_tasks"
      [] t \in AudioTasks -> "tasks.audio_tasks"
      [] t = "ai_workflow_task" -> "tasks.ai_tasks"
      [] t = "cleanup_old_files_task" -> "tasks.storage_tasks"

\* The class of a job: that of the module of its task function.
JobClass(t) ==
    CASE Module(t) = "tasks.video_tasks" -> "video"
      [] Module(t) = "tasks.audio_tasks" -> "audio"
      [] Module(t) = "tasks.ai_tasks" -> "ai"
      [] Module(t) = "tasks.storage_tasks" -> "storage"

\* task_routes: the pattern '{module}.*' and the queue of the names it
\* matches.
task_routes ==
    { [module |-> "tasks.video_tasks", queue |-> "video_processing"],
      [module |-> "tasks.audio_tasks", queue |-> "audio_processing"],
      [module |-> "tasks.ai_tasks", queue |-> "ai_processing"],
      [module |-> "tasks.storage_tasks", queue |-> "storage"] }

\* The queue of a task name that no route matches.
DefaultQueue == "celery"

QueueNames == {r.queue : r \in task_routes} \cup {DefaultQueue}

\* The router: the queue of the route whose pattern matches the name.
Route(t) ==
    LET matching == {r \in task_routes : r.module = Module(t)}
    IN IF matching = {} THEN DefaultQueue
       ELSE (CHOOSE r \in matching : TRUE).queue

Unsent ==
    [task |-> "none", class |-> "none", place |-> "unsent", queue |-> "none",
     from |-> "none", slot |-> "none", acked |-> FALSE, state |-> "none",
     deliveries |-> 0]

\* The jobs a slot has reserved or runs, and those of them whose message
\* is not acknowledged.
Held(s) == {j \in JobIds : q.jobs[j].slot = s /\ q.jobs[j].place \in {"reserved", "running"}}
Unacked(s) == {j \in Held(s) : ~q.jobs[j].acked}

\* A client enqueues a task function: the router names the queue.
apply_async ==
    /\ \E j \in JobIds, t \in QueueTasks :
          /\ q.jobs[j].place = "unsent"
          /\ q' = [q EXCEPT !.jobs[j] = [Unsent EXCEPT !.task = t,
                                                       !.class = JobClass(t),
                                                       !.place = "queued",
                                                       !.queue = Route(t),
                                                       !.state = "PENDING"],
                            !.queues[Route(t)] = Append(@, j)]
    /\ UNCHANGED <<pipeVars, wf, st, rd, lim, api, jobs, seg>>

\* POST /download: the download is added to the request's background tasks
\* and the response is returned; no message is sent to the broker.
download_video_endpoint ==
    /\ \E j \in JobIds :
          /\ q.jobs[j].place = "unsent"
          /\ q' = [q EXCEPT !.jobs[j] = [Unsent EXCEPT !.task = "download_video",
                                                       !.class = "download",
                                                       !.place = "background"]]
    /\ UNCHANGED <<pipeVars, wf, st, rd, lim, api, jobs, seg>>

\* The web process runs the download after the response; what
\* download_video returns is dropped.
download_video_background ==
    /\ \E j \in JobIds :
          /\ q.jobs[j].place = "background"
          /\ q' = [q EXCEPT !.jobs[j].place = "done"]
    /\ UNCHANGED <<pipeVars, wf, st, rd, lim, api, jobs, seg>>

\* The broker delivers the message at the head of a queue to a slot whose
\* unacknowledged messages are fewer than the prefetch limit.
reserve ==
    /\ \E s \in Slots, n \in QueueNames :
          /\ q.queues[n] # <<>>
          /\ Cardinality(Unacked(s)) < worker_prefetch_multiplier
          /\ LET j == Head(q.queues[n])
             IN q' = [q EXCEPT !.jobs[j].place = "reserved",
                               !.jobs[j].slot = s,
                               !.jobs[j].from = n,
                               !.jobs[j].deliveries = @ + 1,
                               !.queues[n] = Tail(@)]
    /\ UNCHANGED <<pipeVars, wf, st, rd, lim, api, jobs, seg>>

\* A free slot starts the task function of a job it has reserved. Without
\* task_acks_late the message is acknowledged here, before the function runs.
start ==
    /\ \E s \in Slots, j \in JobIds :
          /\ q.jobs[j].slot = s /\ q.jobs[j].place = "reserved"
          /\ \A k \in Held(s) : q.jobs[k].place # "running"
          /\ q' = [q EXCEPT !.jobs[j].place = "running",
                            !.jobs[j].acked = ~task_acks_late,
                            !.jobs[j].state = "PROGRESS"]
    /\ UNCHANGED <<pipeVars, wf, st, rd, lim, api, jobs, seg>>

\* The task function returns (SUCCESS) or raises or runs into the hard time
\* limit (FAILURE); the message is acknowledged.
task_end ==
    /\ \E s \in Slots, j \in JobIds, outcome \in {"SUCCESS", "FAILURE"} :
          /\ q.jobs[j].slot = s /\ q.jobs[j].place = "running"
          /\ q' = [q EXCEPT !.jobs[j].place = "done",
                            !.jobs[j].state = outcome,
                            !.jobs[j].acked = TRUE]
    /\ UNCHANGED <<pipeVars, wf, st, rd, lim, api, jobs, seg>>

\* The pool process of a slot is lost while it runs a job. With
\* task_acks_late and task_reject_on_worker_lost the message is rejected
\* and put back at the head of its queue; otherwise the job is recorded as
\* failed and its message acknowledged.
worker_lost ==
    /\ q.losses < MaxLosses
    /\ \E s \in Slots, j \in JobIds :
          /\ q.jobs[j].slot = s /\ q.jobs[j].place = "running"
          /\ q' = IF task_acks_late /\ task_reject_on_worker_lost
                  THEN [q EXCEPT !.jobs[j].place = "queued",
                                 !.jobs[j].slot = "none",
                                 !.jobs[j].acked = FALSE,
                                 !.queues[q.jobs[j].queue] = <<j>> \o @,
                                 !.losses = @ + 1]
                  ELSE [q EXCEPT !.jobs[j].place = "done",
                                 !.jobs[j].state = "FAILURE",
                                 !.jobs[j].acked = TRUE,
                                 !.losses = @ + 1]
    /\ UNCHANGED <<pipeVars, wf, st, rd, lim, api, jobs, seg>>

InitQueue ==
    /\ PipeIdle
    /\ wf = WfIdle
    /\ st = StIdle
    /\ rd = FirstDelivery
    /\ lim = LimIdle
    /\ api = ApiIdle
    /\ jobs = JobsIdle
    /\ seg = SegIdle
    /\ q = [pc |-> "run",
            jobs |-> [j \in JobIds |-> Unsent],
            queues |-> [n \in QueueNames |-> <<>>],
            losses |-> 0]

NextQueue ==
    \/ apply_async
    \/ download_video_endpoint
    \/ download_video_background
    \/ reserve
    \/ start
    \/ task_end
    \/ worker_lost

SpecQueue == InitQueue /\ [][NextQueue]_vars

\* Live slots are scheduled fairly: a message that can be delivered is
\* delivered, a reserved job is started, and a task function ends (the hard
\* time limit ends the ones that do not end by themselves).
SpecQueueFair ==
    /\ SpecQueue
    /\ WF_vars(reserve)
    /\ WF_vars(start)
    /\ WF_vars(task_end)

\* The step in which job j, running, leaves its slot unfinished.
Lost(j) ==
    /\ q.jobs[j].place = "running"
    /\ q'.losses = q.losses + 1
    /\ q'.jobs[j] # q.jobs[j]

C18_OneQueuePerClass ==
    \A j \in JobIds :
        q.jobs[j].place # "unsent" =>
            /\ q.jobs[j].queue \in QueueNames
            /\ q.jobs[j].from \in {"none", q.jobs[j].queue}
            /\ \A k \in JobIds :
                  (q.jobs[k].place # "unsent" /\ q.jobs[k].class # q.jobs[j].class)
                      => q.jobs[k].queue # q.jobs[j].queue
            /\ \A n \in QueueNames :
                  (\E p \in 1..Len(q.queues[n]) : q.queues[n][p] = j)
                      => (n = q.jobs[j].queue /\ q.jobs[j].place = "queued")

\* C19: a slot holds at most one job that is reserved or running, so it
\* holds at most one unacknowledged job and reserves no second job while
\* its job is unfinished.
C19_OneJobPerSlot ==
    \A s \in Slots :
        /\ Cardinality(Unacked(s)) <= 1
        /\ Cardinality(Held(s)) <= 1

\* One slot runs a job while the other job waits on a queue and the other
\* slot is free: the waiting job was not reserved by the busy slot.
C19_Witness ==
    /\ q.jobs["j1"].place = "running" /\ q.jobs["j1"].slot = "s1"
    /\ q.jobs["j2"].place = "queued"
    /\ q.jobs["j2"].queue = q.jobs["j1"].queue
    /\ Held("s2") = {}

(***************************************************************************)
(* The worker's time limits on the job it runs (celery_app.py)             *)
(***************************************************************************)
task_soft_time_limit == 300
task_time_limit == 600

\* Seconds the clock moves in one step.
ClockStep == 150

\* Time passes while the task function runs. A limit that is due is
\* enforced before the clock moves on.
tick ==
    /\ tpc = "running"
    /\ lim.elapsed < task_time_limit
    /\ ~(lim.elapsed >= task_soft_time_limit /\ ~lim.soft)
    /\ lim' = [lim EXCEPT !.elapsed = @ + ClockStep]
    /\ UNCHANGED <<pipeVars, wf, st, rd, q, api, jobs, seg>>

\* The soft limit: SoftTimeLimitExceeded is raised at the point the task
\* function has reached. Inside the executor its `except Exception` turns
\* it into a failed result. After the executor it is raised in the task
\* body, whose except branch records FAILURE and re-raises, or inside a
\* storage call, which returns it as {"error": ...} to a task that goes on.
soft_time_limit ==
    /\ tpc = "running"
    /\ lim.elapsed >= task_soft_time_limit
    /\ ~lim.soft
    /\ lim' = [lim EXCEPT !.soft = TRUE]
    /\ IF epc # "done"
       THEN /\ result' = FailedResult(Err("SoftTimeLimitExceeded",
                                          ExecutorName(Kind(task)), 0))
            /\ epc' = "done"
            /\ UNCHANGED <<state, updates, tpc>>
       ELSE \E in_storage \in {b \in BOOLEAN : b => result.status = "completed"} :
               IF in_storage
               THEN UNCHANGED <<state, updates, tpc, result, epc>>
               ELSE /\ updates' = Append(updates, Update("FAILURE", 0, 0))
                    /\ state' = "FAILURE"
                    /\ tpc' = "raised"
                    /\ UNCHANGED <<result, epc>>
    /\ UNCHANGED <<task, operations, inputExists, subtitleExists, listed, i,
                   current_input, calls, wf, st, rd, q, api, jobs, seg>>

\* The hard limit: the pool process is killed and the worker records the
\* job as failed (TimeLimitExceeded).
hard_time_limit ==
    /\ tpc = "running"
    /\ lim.elapsed >= task_time_limit
    /\ ~lim.hard
    /\ lim' = [lim EXCEPT !.hard = TRUE]
    /\ state' = "FAILURE"
    /\ tpc' = "killed"
    /\ UNCHANGED <<task, operations, inputExists, subtitleExists, listed, updates,
                   epc, i, current_input, calls, result, wf, st, rd, q,
                   api, jobs, seg>>

InitLimits ==
    /\ task \in Tasks
    /\ operations \in IF task \in {"process_audio_task", "process_video_task"}
                      THEN OpLists ELSE {FixedOperations(task)}
    /\ inputExists \in BOOLEAN
    /\ subtitleExists \in BOOLEAN
    /\ listed = NoListing
    /\ state = "PENDING"
    /\ updates = <<>>
    /\ tpc = "pending"
    /\ epc = "start"
    /\ i = 1
    /\ current_input = NoPath
    /\ calls = <<>>
    /\ result = NoResult
    /\ wf = WfIdle
    /\ st = StIdle
    /\ rd = FirstDelivery
    /\ q = QIdle
    /\ lim = [pc |-> "timing", elapsed |-> 0, soft |-> FALSE, hard |-> FALSE]
    /\ api = ApiIdle
    /\ jobs = JobsIdle
    /\ seg = SegIdle

NextLimits ==
    \/ Next
    \/ tick
    \/ soft_time_limit
    \/ hard_time_limit

SpecLimits == InitLimits /\ [][NextLimits]_vars

\* C20: the soft limit is below the hard limit and a job is signalled at
\* the soft limit before it is killed at the hard one; a job that either
\* limit interrupted ends FAILURE with the limit's exception as its error,
\* never SUCCESS.
C20_LimitsOrderedAndInterruptedJobFails ==
    /\ task_soft_time_limit < task_time_limit
    /\ lim.hard => lim.soft
    /\ ((lim.soft \/ lim.hard) /\ tpc \in {"returned", "raised", "killed"})
          => state = "FAILURE"

(***************************************************************************)
(* The web process (main.py): one submission, the background tasks it      *)
(* queues, and the status and result requests that follow                  *)
(***************************************************************************)
Endpoints == {"/download", "/process/video", "/process/audio", "/ai/transcribe",
              "/ai/translate", "/ai/text-to-speech", "/ai/workflow"}

ProcessEndpoints == {"/process/video", "/process/audio"}

\* TaskStatusEnum of schemas.py
TaskStatusEnum == {"pending", "started", "processing", "completed", "failed",
                   "cancelled"}

NoReply == [code |-> 0, status |-> "none", job |-> "none", file |-> {}]

\* What the executor works with when the caller passed `passed`:
\* `if parameters is None: parameters = {}`.
Received(passed) == IF passed = "None" THEN "empty" ELSE passed

\* Mutant: the handler awaits the work and then answers.
Accepted_awaiting(tasks, passed) ==
    api' = [api EXCEPT !.pc = "settled", !.code = 200, !.id = TRUE,
                       !.passed = passed, !.job = "completed",
                       !.ran = [n \in 1..Len(tasks) |->
                                  [fn |-> tasks[n], at |-> "handler"]]]

\* The handler has queued `tasks` and answers 200 with the fresh id.
Accepted(tasks, passed) ==
    api' = [api EXCEPT !.pc = "background", !.code = 200, !.id = TRUE,
                       !.tasks = tasks, !.passed = passed, !.job = "pending"]

\* An exception inside a handler's try: `except Exception` answers 500,
\* whatever was raised.
Rejected == api' = [api EXCEPT !.pc = "settled", !.code = 500]

\* POST /download
post_download ==
    /\ api.pc = "request" /\ api.endpoint = "/download"
    /\ Accepted(<<"download_video">>, "None")
    /\ UNCHANGED <<pipeVars, wf, st, rd, q, lim, jobs, seg>>

\* POST /process/video and POST /process/audio: the executor is queued with
\* input_path, task_id and operations; request.parameters is not passed.
post_process ==
    /\ api.pc = "request" /\ api.endpoint \in ProcessEndpoints
    /\ Accepted(<<IF api.endpoint = "/process/audio" THEN "process_audio"
                  ELSE "process_video">>, "None")
    /\ subtitleExists' = (Received("None") = "mapping")
    /\ UNCHANGED <<task, operations, inputExists, listed, state, updates, tpc, epc,
                   i, current_input, calls, result, wf, st, rd, q, lim, jobs, seg>>

\* POST /ai/transcribe
post_ai_transcribe ==
    /\ api.pc = "request" /\ api.endpoint = "/ai/transcribe"
    /\ Accepted(<<"transcribe_audio">>, "None")
    /\ UNCHANGED <<pipeVars, wf, st, rd, q, lim, jobs, seg>>

\* POST /ai/translate: the handler awaits the translation and answers with
\* its result; an error result is raised as 500.
post_ai_translate ==
    /\ api.pc = "request" /\ api.endpoint = "/ai/translate"
    /\ \E r \in translate_text(api.translate_client) :
          api' = [api EXCEPT !.pc = "settled",
                             !.code = IF r.ok THEN 200 ELSE 500,
                             !.ran = Append(@, [fn |-> "translate_text",
                                                at |-> "handler"])]
    /\ UNCHANGED <<pipeVars, wf, st, rd, q, lim, jobs, seg>>

\* POST /ai/text-to-speech: the provider passed is always "google".
post_ai_text_to_speech ==
    /\ api.pc = "request" /\ api.endpoint = "/ai/text-to-speech"
    /\ Accepted(<<"synthesize_speech">>, "None")
    /\ UNCHANGED <<pipeVars, wf, st, rd, q, lim, jobs, seg>>

\* POST /ai/workflow: a request with neither input raises the 400 inside
\* the try.
post_ai_workflow ==
    /\ api.pc = "request" /\ api.endpoint = "/ai/workflow"
    /\ IF api.input = "none"
       THEN Rejected
       ELSE Accepted(IF api.input = "url"
                     THEN <<"download_video", "process_audio_workflow">>
                     ELSE <<"process_audio_workflow">>, "None")
    /\ UNCHANGED <<pipeVars, wf, st, rd, q, lim, jobs, seg>>

\* A background task other than an executor runs, after the response: the
\* collaborator returns its result (dropped by the caller) and may leave
\* a file named after the id. The workflow is handed a guessed download
\* path that names no file.
background_task ==
    /\ api.pc = "background"
    /\ api.tasks # <<>>
    /\ Head(api.tasks) \notin {"process_audio", "process_video"}
    /\ LET fn == Head(api.tasks)
           audio_exists == inputExists /\ api.input # "url"
           outcomes ==
             CASE fn = "download_video" -> {"completed", "failed"}
               [] fn = "transcribe_audio" ->
                    { IF r.ok THEN "completed" ELSE "failed" :
                        r \in transcribe_audio(AudioPath, IF audio_exists
                                                          THEN {AudioPath} ELSE {}) }
               [] fn = "synthesize_speech" ->
                    { IF r.ok THEN "completed" ELSE "failed" :
                        r \in synthesize_speech("google", api.google_client,
                                                api.aws_client) }
               [] fn = "process_audio_workflow" ->
                    { IF r = "completed" THEN "completed" ELSE "failed" :
                        r \in process_audio_workflow(audio_exists,
                                                     api.translate_client,
                                                     api.google_client,
                                                     api.aws_client) }
       IN \E outcome \in outcomes :
             api' = [api EXCEPT
                       !.ran = Append(@, [fn |-> fn, at |-> "background"]),
                       !.tasks = Tail(@),
                       !.pc = IF Tail(api.tasks) = <<>> THEN "settled" ELSE @,
                       !.job = IF Tail(api.tasks) = <<>> THEN outcome ELSE "running",
                       !.files = IF outcome = "completed" /\ fn # "transcribe_audio"
                                 THEN @ \cup {fn} ELSE @]
    /\ UNCHANGED <<pipeVars, wf, st, rd, q, lim, jobs, seg>>

\* The background tasks reach the executor: process_audio / process_video
\* is called.
background_start ==
    /\ api.pc = "background"
    /\ api.tasks # <<>>
    /\ Head(api.tasks) \in {"process_audio", "process_video"}
    /\ tpc = "queued"
    /\ tpc' = "running"
    /\ api' = [api EXCEPT !.ran = Append(@, [fn |-> Head(api.tasks),
                                             at |-> "background"]),
                          !.job = "running"]
    /\ UNCHANGED <<task, operations, inputExists, subtitleExists, listed, state,
                   updates, epc, i, current_input, calls, result, wf, st, rd, q, lim, jobs, seg>>

\* The executor has returned; its result is dropped.
background_return ==
    /\ api.pc = "background"
    /\ tpc = "running" /\ epc = "done"
    /\ tpc' = "returned"
    /\ api' = [api EXCEPT !.tasks = Tail(@), !.pc = "settled",
                          !.job = result.status]
    /\ UNCHANGED <<task, operations, inputExists, subtitleExists, listed, state,
                   updates, epc, i, current_input, calls, result, wf, st, rd, q, lim, jobs, seg>>

\* TaskStatus(...) of schemas.py: the model validates `status` against
\* TaskStatusEnum when it is constructed.
TaskStatus(status) ==
    IF status \in TaskStatusEnum
    THEN [raised |-> FALSE, status |-> status]
    ELSE [raised |-> TRUE, status |-> "none"]

\* The placeholder: the same value for every task id.
get_combined_task_status == TaskStatus("unknown")

\* GET /status/{task_id} with the id of the submission.
get_task_status ==
    /\ api.pc \in {"background", "settled"}
    /\ api.id
    /\ api.status = NoReply
    /\ api' = [api EXCEPT !.status =
                 IF get_combined_task_status.raised
                 THEN [code |-> 500, status |-> "none", job |-> api.job,
                       file |-> {}]
                 ELSE [code |-> 200, status |-> get_combined_task_status.status,
                       job |-> api.job, file |-> {}]]
    /\ UNCHANGED <<pipeVars, wf, st, rd, q, lim, jobs, seg>>

\* Files of PROCESSED_DIR and DOWNLOAD_DIR whose name contains the id: what
\* the background tasks left, and the step outputs the executor's tools
\* wrote.
find_result_file ==
    api.files \cup {calls[n].output : n \in {m \in 1..Len(calls) : calls[m].exc = "none"}}

\* The status a handler answers with when the body of its try ends with
\* `code`: an HTTPException raised in the body, of any status, is caught
\* by `except Exception` and raised again as 500.
InTry(code) == IF code = 200 THEN 200 ELSE 500

\* GET /download/{task_id} with the id of the submission: the 404 is raised
\* inside the try. The file served is the first name of os.listdir that
\* contains the id; os.listdir returns the names in arbitrary order.
download_result ==
    /\ api.pc \in {"background", "settled"}
    /\ api.id
    /\ api.download = NoReply
    /\ \E served \in IF find_result_file = {} THEN {{}}
                     ELSE { {f} : f \in find_result_file } :
          api' = [api EXCEPT !.download =
                    [code |-> InTry(IF served = {} THEN 404 ELSE 200),
                     status |-> IF served = {} THEN "none" ELSE "file",
                     job |-> api.job,
                     file |-> served]]
    /\ UNCHANGED <<pipeVars, wf, st, rd, q, lim, jobs, seg>>

InitApi ==
    /\ \E endpoint \in Endpoints :
          /\ api \in [pc : {"request"},
                      endpoint : {endpoint},
                      parameters : IF endpoint \in ProcessEndpoints
                                   THEN {"mapping", "empty"} ELSE {"empty"},
                      input : IF endpoint = "/ai/workflow"
                              THEN {"url", "file", "none"} ELSE {"none"},
                      translate_client : IF endpoint \in {"/ai/translate", "/ai/workflow"}
                                         THEN BOOLEAN ELSE {FALSE},
                      google_client : IF endpoint \in {"/ai/text-to-speech", "/ai/workflow"}
                                      THEN BOOLEAN ELSE {FALSE},
                      aws_client : IF endpoint \in {"/ai/text-to-speech", "/ai/workflow"}
                                   THEN BOOLEAN ELSE {FALSE},
                      code : {0}, id : {FALSE}, tasks : {<<>>}, passed : {"None"},
                      job : {"none"}, ran : {<<>>}, files : {{}},
                      status : {NoReply}, download : {NoReply}]
          /\ task = IF endpoint \in ProcessEndpoints THEN endpoint ELSE "none"
          /\ operations \in IF endpoint \in ProcessEndpoints THEN OpLists ELSE {<<>>}
          /\ inputExists \in IF endpoint \in ProcessEndpoints
                                  \cup {"/ai/transcribe", "/ai/workflow"}
                             THEN BOOLEAN ELSE {FALSE}
          /\ tpc = IF endpoint \in ProcessEndpoints THEN "queued" ELSE "idle"
    /\ subtitleExists = FALSE
    /\ listed = NoListing
    /\ state = "none"
    /\ updates = <<>>
    /\ epc = "start"
    /\ i = 1
    /\ current_input = NoPath
    /\ calls = <<>>
    /\ result = NoResult
    /\ wf = WfIdle
    /\ st = StIdle
    /\ rd = FirstDelivery
    /\ q = QIdle
    /\ lim = LimIdle
    /\ jobs = JobsIdle
    /\ seg = SegIdle

NextApi ==
    \/ post_download
    \/ post_process
    \/ post_ai_transcribe
    \/ post_ai_translate
    \/ post_ai_text_to_speech
    \/ post_ai_workflow
    \/ background_task
    \/ background_start
    \/ process_start
    \/ process_step
    \/ process_finish
    \/ background_return
    \/ get_task_status
    \/ download_result

SpecApi == InitApi /\ [][NextApi]_vars

\* C21: a status request made once the job is completed or failed is
\* answered 200 with that state.
C21_StatusReportsTerminalState ==
    (api.status # NoReply /\ api.status.job \in {"completed", "failed"}) =>
        /\ api.status.code = 200
        /\ api.status.status = api.status.job

\* The endpoints of E behave as submissions: an accepted request has been
\* answered with an id, none of its work ran in the handler, and while the
\* request is unanswered nothing has run.
SubmitsOnly(E) ==
    api.endpoint \in E =>
        /\ api.pc = "request" => api.ran = <<>>
        /\ api.code = 200 =>
              /\ api.id
              /\ \A n \in 1..Len(api.ran) : api.ran[n].at = "background"

C23_AbsentResultIs404 ==
    (api.download # NoReply /\ api.download.status = "none") =>
        api.download.code = 404

\* C24: the operations of a job submitted with a parameter mapping run with
\* that mapping.
C24_OperationsReceiveSubmittedParameters ==
    (api.endpoint \in ProcessEndpoints /\ api.parameters = "mapping" /\ calls # <<>>) =>
        Received(api.passed) = api.parameters

\* C25: a job submitted through /process/audio on an existing input whose
\* result is completed has the output path, the file metadata and a
\* download_url in that result.
C25_CompletedAudioJobHasDownloadUrl ==
    (api.endpoint = "/process/audio" /\ inputExists /\ api.job = "completed") =>
        /\ result.output_path # NoPath
        /\ result.file_info # "none"
        /\ result.download_url

\* C26: the result a task returns when processing completed and the upload
\* failed (no remote key was recorded) carries an error and has no
\* storage_url and no download_url.
C26_UploadFailureIsReported ==
    (tpc = "returned" /\ result.status = "completed" /\ ~result.remote_key) =>
        /\ result.error # NoErr
        /\ ~result.storage_url
        /\ ~result.download_url

(***************************************************************************)
(* What a finished pipeline leaves in scratch                              *)
(***************************************************************************)
\* The step outputs in scratch when the executor returns: every output an
\* invocation wrote. process_audio and process_video hand the output of a
\* step to the next one as its input and remove nothing; the only removals
\* in the processors are those of the noise profile and of the segment
\* files inside their own operation.
LeftInScratch ==
    { calls[k].output : k \in { n \in 1..Len(calls) : calls[n].exc = "none" } }

\* C29: when a pipeline of two or more steps has completed, the only step
\* output left in scratch is the output of the last step.
C29_IntermediatesDeletedOnceConsumed ==
    (epc = "done" /\ result.status = "completed" /\ Len(PrimaryCalls) >= 2) =>
        LeftInScratch \subseteq {result.output_path}

(***************************************************************************)
(* Two workers that share ./processed and the storage, each running one    *)
(* job (ai_tasks.py, audio_tasks.py, storage_tasks.py)                     *)
(***************************************************************************)
Workers == {"w1", "w2"}

\* self.request.id of the job a worker runs: the two jobs have different
\* task ids.
request_id(w) == IF w = "w1" THEN "t1" ELSE "t2"

\* Mutant: the speech file is named without the task id.
speech_output_path_without_task_id(task_id) ==
    [dir |-> "processed", task |-> "none", op |-> "speech", step |-> 0, ext |-> "mp3"]

\* f"./processed/{task_id}_speech.mp3"; step is 0 in the names that have no
\* step.
speech_output_path(task_id) ==
    [dir |-> "processed", task |-> task_id, op |-> "speech", step |-> 0, ext |-> "mp3"]

\* f"./processed/{task_id}_transcript.txt"
transcript_path(task_id) ==
    [dir |-> "processed", task |-> task_id, op |-> "transcript", step |-> 0, ext |-> "txt"]

\* output_path.replace('.wav', '_noise.prof'): a path without '.wav' is
\* returned as it is.
noise_profile(output_path) ==
    IF output_path.ext = "wav" THEN [output_path EXCEPT !.ext = "_noise.prof"]
    ELSE output_path

\* Mutant: the per-segment files are named without the index.
segment_path_without_index(output_path, n) ==
    IF output_path.ext = "wav" THEN [output_path EXCEPT !.ext = "_segment.wav"]
    ELSE output_path

\* output_path.replace('.wav', f'_segment_{n}.wav')
segment_path(output_path, n) ==
    IF output_path.ext = "wav"
    THEN [output_path EXCEPT
            !.ext = <<"_segment_0.wav", "_segment_1.wav", "_segment_2.wav",
                      "_segment_3.wav", "_segment_4.wav">>[n + 1]]
    ELSE output_path

\* The files one invocation of an operation method writes: its output, the
\* noise profile of _noise_reduction, and the per-segment files of
\* _extract_segments when it is given more than one segment.
Written(c, segments) ==
    CASE c.fn = "_noise_reduction" -> {noise_profile(c.output), c.output}
      [] c.fn = "_extract_segments" /\ segments > 1 ->
            {segment_path(c.output, n) : n \in 0..(segments - 1)} \cup {c.output}
      [] OTHER -> {c.output}

\* The remote key of each task's upload.
\* text_to_speech_task: f"speech/{task_id}_speech.mp3"
\* transcribe_audio_task: f"transcripts/{task_id}_transcript.txt"
\* batch_upload_task: f"{remote_prefix}/{filename}", remote_prefix "batch"
JobRemoteKey(t, task_id, file) ==
    CASE t = "text_to_speech_task" ->
            [category |-> "speech", task |-> task_id,
             name |-> basename(speech_output_path("none"))]
      [] t = "transcribe_audio_task" ->
            [category |-> "transcripts", task |-> task_id,
             name |-> basename(transcript_path("none"))]
      [] t = "batch_upload_task" ->
            [category |-> "batch", task |-> "none", name |-> basename(file)]
      [] OTHER -> RemoteKey(t, task_id, file)

NoJobResult == [status |-> "none", error |-> FALSE, remote_key |-> FALSE]

\* text_to_speech_task up to the upload: the file is written by the client
\* that synthesized; an {"error": ...} of the service is returned as it is.
text_to_speech_task_begin(w) ==
    /\ jobs.pc = "running"
    /\ jobs.run[w].pc = "ready" /\ jobs.run[w].task = "text_to_speech_task"
    /\ \E r \in synthesize_speech(jobs.run[w].provider, jobs.google_client,
                                   jobs.aws_client) :
          IF r.ok
          THEN jobs' = [jobs EXCEPT
                  !.scratch = @ \cup {[path |-> speech_output_path(request_id(w)),
                                       by |-> w]},
                  !.run[w].spoke = {r.by},
                  !.run[w].file = speech_output_path(request_id(w)),
                  !.run[w].pc = "uploading"]
          ELSE jobs' = [jobs EXCEPT
                  !.run[w].result = [NoJobResult EXCEPT !.error = TRUE],
                  !.run[w].pc = "done"]
    /\ UNCHANGED <<pipeVars, wf, st, rd, q, lim, api, seg>>

\* transcribe_audio_task up to the upload: the transcript is written to
\* ./processed when the service returned no error.
transcribe_audio_task_begin(w) ==
    /\ jobs.pc = "running"
    /\ jobs.run[w].pc = "ready" /\ jobs.run[w].task = "transcribe_audio_task"
    /\ \E r \in transcribe_audio(AudioPath, {AudioPath}) :
          IF r.ok
          THEN jobs' = [jobs EXCEPT
                  !.scratch = @ \cup {[path |-> transcript_path(request_id(w)),
                                       by |-> w]},
                  !.run[w].file = transcript_path(request_id(w)),
                  !.run[w].pc = "uploading"]
          ELSE jobs' = [jobs EXCEPT
                  !.run[w].result = [NoJobResult EXCEPT !.error = TRUE],
                  !.run[w].pc = "done"]
    /\ UNCHANGED <<pipeVars, wf, st, rd, q, lim, api, seg>>

\* process_audio_task with a list of one operation, up to the upload: the
\* executor's loop body runs once with the step output of this task id.
process_audio_task_begin(w) ==
    /\ jobs.pc = "running"
    /\ jobs.run[w].pc = "ready" /\ jobs.run[w].task = "process_audio_task"
    /\ \E r \in process_audio_dispatch(
                   jobs.run[w].operation, InputPath,
                   _get_output_path("audio", request_id(w), jobs.run[w].operation, 0),
                   0) :
          LET files == UNION { Written(r.calls[n], jobs.run[w].segments) :
                                 n \in 1..Len(r.calls) }
              wrote == { [path |-> f, by |-> w] : f \in files }
          IN  IF r.raised
              THEN jobs' = [jobs EXCEPT
                      !.scratch = @ \cup wrote,
                      !.run[w].result = [NoJobResult EXCEPT !.status = "failed",
                                                            !.error = TRUE],
                      !.run[w].pc = "done"]
              ELSE jobs' = [jobs EXCEPT
                      !.scratch = @ \cup wrote,
                      !.run[w].file = r.path,
                      !.run[w].pc = "uploading"]
    /\ UNCHANGED <<pipeVars, wf, st, rd, q, lim, api, seg>>

\* The upload of the three tasks above and the rest of the task: the result
\* is 'completed' whether or not the upload succeeded.
task_upload(w) ==
    /\ jobs.pc = "running"
    /\ jobs.run[w].pc = "uploading"
    /\ \E success \in BOOLEAN :
          jobs' = [jobs EXCEPT
                     !.uploads = @ \cup {[key |-> JobRemoteKey(jobs.run[w].task,
                                                              request_id(w),
                                                              jobs.run[w].file),
                                          file |-> jobs.run[w].file, by |-> w,
                                          n |-> 1]},
                     !.run[w].result = [status |-> "completed", error |-> FALSE,
                                        remote_key |-> success],
                     !.run[w].pc = "done"]
    /\ UNCHANGED <<pipeVars, wf, st, rd, q, lim, api, seg>>

\* Mutant: the loop ends at the first upload that fails.
batch_upload_task_step_stopping_at_failure(w) ==
    /\ jobs.pc = "running"
    /\ jobs.run[w].pc = "ready" /\ jobs.run[w].task = "batch_upload_task"
    /\ jobs.run[w].n < Len(jobs.run[w].file_paths)
    /\ LET file_path == jobs.run[w].file_paths[jobs.run[w].n + 1]
           remote_key == JobRemoteKey("batch_upload_task", request_id(w), file_path)
       IN  \E success \in BOOLEAN :
              jobs' = [jobs EXCEPT
                         !.uploads = @ \cup {[key |-> remote_key,
                                              file |-> file_path, by |-> w,
                                              n |-> jobs.run[w].n + 1]},
                         !.run[w].results = Append(@, [file_path |-> file_path,
                                                       remote_key |-> remote_key,
                                                       success |-> success]),
                         !.run[w].n = IF success THEN @ + 1
                                      ELSE Len(jobs.run[w].file_paths)]
    /\ UNCHANGED <<pipeVars, wf, st, rd, q, lim, api, seg>>

\* One iteration of the loop of batch_upload_task: the upload returns a
\* success or an error value, and either is appended to the results.
batch_upload_task_step(w) ==
    /\ jobs.pc = "running"
    /\ jobs.run[w].pc = "ready" /\ jobs.run[w].task = "batch_upload_task"
    /\ jobs.run[w].n < Len(jobs.run[w].file_paths)
    /\ LET file_path == jobs.run[w].file_paths[jobs.run[w].n + 1]
           remote_key == JobRemoteKey("batch_upload_task", request_id(w), file_path)
       IN  \E success \in BOOLEAN :
              jobs' = [jobs EXCEPT
                         !.uploads = @ \cup {[key |-> remote_key,
                                              file |-> file_path, by |-> w,
                                              n |-> jobs.run[w].n + 1]},
                         !.run[w].results = Append(@, [file_path |-> file_path,
                                                       remote_key |-> remote_key,
                                                       success |-> success]),
                         !.run[w].n = @ + 1]
    /\ UNCHANGED <<pipeVars, wf, st, rd, q, lim, api, seg>>

\* After the loop: the summary counts the results that carry 'success'.
batch_upload_task_finish(w) ==
    /\ jobs.pc = "running"
    /\ jobs.run[w].pc = "ready" /\ jobs.run[w].task = "batch_upload_task"
    /\ jobs.run[w].n = Len(jobs.run[w].file_paths)
    /\ LET total_files == Len(jobs.run[w].file_paths)
           successful_uploads ==
             Cardinality({ k \in 1..Len(jobs.run[w].results) :
                             jobs.run[w].results[k].success })
       IN  jobs' = [jobs EXCEPT
                      !.run[w].result = [NoJobResult EXCEPT !.status = "completed"],
                      !.run[w].summary =
                         [total_files |-> total_files,
                          successful_uploads |-> successful_uploads,
                          failed_uploads |-> total_files - successful_uploads],
                      !.run[w].pc = "done"]
    /\ UNCHANGED <<pipeVars, wf, st, rd, q, lim, api, seg>>

\* The jobs a worker can be sent: text_to_speech_task with a provider the
\* service knows or one it does not; transcribe_audio_task;
\* process_audio_task with one operation (the two that write more than their
\* output file, and a plain one) on one or two segments; batch_upload_task
\* with a list of files, two of which have the same basename.
JobArguments ==
    LET none(t) == [pc |-> "ready", task |-> t, provider |-> "none",
                    operation |-> "none", segments |-> 0, file_paths |-> <<>>,
                    n |-> 0, spoke |-> {}, file |-> NoPath,
                    results |-> <<>>,
                    summary |-> [total_files |-> 0, successful_uploads |-> 0,
                                 failed_uploads |-> 0],
                    result |-> NoJobResult]
        files == { [dir |-> d, task |-> "none", op |-> "x", step |-> 0,
                    ext |-> "wav"] : d \in {"dir1", "dir2"} }
    IN  { [none("text_to_speech_task") EXCEPT !.provider = p] :
            p \in {"google", "aws", "azure"} }
        \cup { none("transcribe_audio_task") }
        \cup { [none("process_audio_task") EXCEPT !.operation = o, !.segments = k] :
                 o \in {"noise_reduction", "extract_segments", "change_speed"},
                 k \in {1, 2} }
        \cup { [none("batch_upload_task") EXCEPT !.file_paths = fs] :
                 fs \in UNION { [1..k -> files] : k \in 1..MaxFiles } }

InitJobs ==
    /\ jobs \in { [pc |-> "running", google_client |-> g, aws_client |-> a,
                   run |-> [w \in Workers |-> IF w = "w1" THEN r1 ELSE r2],
                   scratch |-> {}, uploads |-> {}] :
                    g \in BOOLEAN, a \in BOOLEAN,
                    r1 \in JobArguments, r2 \in JobArguments }
    /\ task = "none"
    /\ operations = <<>>
    /\ inputExists = TRUE
    /\ subtitleExists = FALSE
    /\ listed = NoListing
    /\ state = "PENDING"
    /\ updates = <<>>
    /\ tpc = "idle"
    /\ epc = "start"
    /\ i = 0
    /\ current_input = NoPath
    /\ calls = <<>>
    /\ result = NoResult
    /\ wf = WfIdle
    /\ st = StIdle
    /\ rd = FirstDelivery
    /\ q = QIdle
    /\ lim = LimIdle
    /\ api = ApiIdle
    /\ seg = SegIdle

NextJobs ==
    \E w \in Workers :
        \/ text_to_speech_task_begin(w)
        \/ transcribe_audio_task_begin(w)
        \/ process_audio_task_begin(w)
        \/ task_upload(w)
        \/ batch_upload_task_step(w)
        \/ batch_upload_task_finish(w)

SpecJobs == InitJobs /\ [][NextJobs]_vars

\* The provider has a client in this process.
Configured(provider) ==
    \/ provider = "google" /\ jobs.google_client
    \/ provider = "aws" /\ jobs.aws_client

\* C27: a text-to-speech job with provider P is synthesized by no client but
\* that of P, and when P has no client or is not a known provider the job
\* ends with an error, nothing synthesized and no speech file written, also
\* when the other provider has a client.
C27_OnlyTheNamedProviderSynthesizes ==
    \A w \in Workers :
        (jobs.run[w].task = "text_to_speech_task" /\ jobs.run[w].pc # "ready") =>
            /\ jobs.run[w].spoke \subseteq {jobs.run[w].provider}
            /\ ~Configured(jobs.run[w].provider) =>
                  /\ jobs.run[w].result.error
                  /\ jobs.run[w].spoke = {}
                  /\ \A f \in jobs.scratch : f.by # w

C27_Witness ==
    /\ jobs.google_client /\ ~jobs.aws_client
    /\ jobs.run["w1"].task = "text_to_speech_task"
    /\ jobs.run["w1"].provider = "aws"
    /\ jobs.run["w1"].pc = "done" /\ jobs.run["w1"].result.error
    /\ jobs.run["w2"].task = "text_to_speech_task"
    /\ jobs.run["w2"].provider = "google"
    /\ jobs.run["w2"].spoke = {"google"}

\* C28: every upload a task makes uses a key {category}/{task_id}_{basename}
\* with the id of the uploading task, and two uploads of different files, or
\* by different tasks, never use the same key.
C28_KeysCarryTaskIdAndNeverCollide ==
    /\ \A u \in jobs.uploads : u.key.task = request_id(u.by)
    /\ \A u, v \in jobs.uploads :
          (u.file # v.file \/ u.by # v.by) => u.key # v.key

\* C30: every file a job writes in the shared scratch directory has a name
\* that starts with the job's task id, and no path is written by both jobs.
C30_ScratchNamesStartWithTaskId ==
    /\ \A f \in jobs.scratch : f.path.task = request_id(f.by)
    /\ \A f, g \in jobs.scratch : f.by # g.by => f.path # g.path

C30_Witness ==
    /\ \E f \in jobs.scratch :
          f.by = "w1" /\ f.path = noise_profile(AudioOutputPath("t1", "noise_reduction", 0))
    /\ \E f \in jobs.scratch :
          f.by = "w1" /\ f.path = AudioOutputPath("t1", "noise_reduction", 0)
    /\ \E f \in jobs.scratch :
          f.by = "w2" /\ f.path = segment_path(AudioOutputPath("t2", "extract_segments", 0), 1)
    /\ jobs.run["w1"].pc = "done" /\ jobs.run["w2"].pc = "done"

(***************************************************************************)
(* The chain of paths through a pipeline                                   *)
(***************************************************************************)
\* The path an invoked operation handed back, read off its invocation: the
\* output it wrote, or its input when add_subtitles skipped. A fallback
\* writes the output path of the operation it stands in for.
Returned(c) == IF c.exc = "skipped" THEN c.input ELSE c.output

\* C31: the first invoked operation receives the job's input path, every
\* later one receives the path the operation invoked before it returned, and
\* the output_path of a completed result is the path the last invoked
\* operation returned.
C31_EachStepReceivesThePreviousOutput ==
    /\ \A k \in 1..Len(PrimaryCalls) :
          PrimaryCalls[k].input = IF k = 1 THEN InputPath
                                  ELSE Returned(PrimaryCalls[k - 1])
    /\ (epc = "done" /\ result.status = "completed" /\ PrimaryCalls # <<>>) =>
          result.output_path = Returned(PrimaryCalls[Len(PrimaryCalls)])

C31_Witness ==
    /\ epc = "done" /\ result.status = "completed"
    /\ Kind(task) = "video"
    /\ Len(PrimaryCalls) = 2
    /\ PrimaryCalls[1].fn = "_extract_audio"
    /\ PrimaryCalls[2].input = [VideoOutputPath(TaskId, "extract_audio", 0)
                                  EXCEPT !.ext = "mp3"]
    /\ result.output_path = PrimaryCalls[2].output

(***************************************************************************)
(* The step counters of the PROGRESS updates                               *)
(***************************************************************************)
\* C32: the step counters ('current') of the successive PROGRESS updates of
\* a job never decrease.
C32_ProgressCountersNeverDecrease ==
    \A m, n \in 1..Len(updates) :
        (m < n /\ updates[m].state = "PROGRESS" /\ updates[n].state = "PROGRESS") =>
            updates[m].current <= updates[n].current

(***************************************************************************)
(* AudioProcessor._extract_segments, one ffmpeg run at a time              *)
(***************************************************************************)
\* Longest list of segments the operation is given.
MaxSegments == 3

\* The output path the executor passes to the operation.
SegmentsOutput == AudioOutputPath(TaskId, "extract_segments", 0)

\* A file is what can be heard in it: the segments of the input, in order.
\* Writing a path replaces the file that was there (overwrite_output).
WriteFile(disk, path, content) ==
    { f \in disk : f.path # path } \cup { [path |-> path, content |-> content] }

ReadFile(disk, path) == (CHOOSE f \in disk : f.path = path).content

\* The contents of the files, one after the other.
RECURSIVE Concat(_, _)
Concat(disk, paths) ==
    IF paths = <<>> THEN <<>>
    ELSE ReadFile(disk, Head(paths)) \o Concat(disk, Tail(paths))

\* Entry of the method. With one segment ffmpeg cuts it straight into the
\* output path and the method returns; with any other number the loop over
\* the segments follows. An ffmpeg run that fails is raised again.
extract_segments_begin ==
    /\ seg.pc = "start"
    /\ IF Len(seg.segments) = 1
       THEN \E ran \in BOOLEAN :
               seg' = IF ran
                      THEN [seg EXCEPT
                              !.runs = Append(@, [segment |-> 1, to |-> SegmentsOutput]),
                              !.disk = WriteFile(@, SegmentsOutput, <<seg.segments[1]>>),
                              !.ret = SegmentsOutput,
                              !.pc = "returned"]
                      ELSE [seg EXCEPT !.pc = "raised"]
       ELSE seg' = [seg EXCEPT !.pc = "loop"]
    /\ UNCHANGED <<pipeVars, wf, st, rd, q, lim, api, jobs>>

\* One iteration of `for i, segment in enumerate(segments)`: the segment is
\* cut into its own file, and the file is appended to segment_files.
extract_segments_step ==
    /\ seg.pc = "loop"
    /\ seg.i < Len(seg.segments)
    /\ \E ran \in BOOLEAN :
          seg' = IF ran
                 THEN [seg EXCEPT
                         !.runs = Append(@, [segment |-> seg.i + 1,
                                             to |-> segment_path(SegmentsOutput, seg.i)]),
                         !.disk = WriteFile(@, segment_path(SegmentsOutput, seg.i),
                                            <<seg.segments[seg.i + 1]>>),
                         !.segment_files = Append(@, segment_path(SegmentsOutput, seg.i)),
                         !.i = @ + 1]
                 ELSE [seg EXCEPT !.pc = "raised"]
    /\ UNCHANGED <<pipeVars, wf, st, rd, q, lim, api, jobs>>

\* After the loop: the files of segment_files are concatenated, in the order
\* of the list, into the output path.
extract_segments_concat ==
    /\ seg.pc = "loop"
    /\ seg.i = Len(seg.segments)
    /\ \E ran \in BOOLEAN :
          seg' = IF ran
                 THEN [seg EXCEPT
                         !.disk = WriteFile(@, SegmentsOutput,
                                            Concat(seg.disk, seg.segment_files)),
                         !.pc = "cleanup"]
                 ELSE [seg EXCEPT !.pc = "raised"]
    /\ UNCHANGED <<pipeVars, wf, st, rd, q, lim, api, jobs>>

\* The per-segment files are removed and the output path is returned.
extract_segments_cleanup ==
    /\ seg.pc = "cleanup"
    /\ seg' = [seg EXCEPT
                 !.disk = { f \in @ : \A n \in 1..Len(seg.segment_files) :
                                         f.path # seg.segment_files[n] },
                 !.ret = SegmentsOutput,
                 !.pc = "returned"]
    /\ UNCHANGED <<pipeVars, wf, st, rd, q, lim, api, jobs>>

\* params['segments']: a list of one to MaxSegments segments, each a start
\* and a duration; a segment may be asked for more than once.
InitSegments ==
    /\ seg \in [pc : {"start"},
                segments : UNION { [1..n -> { [start |-> 0, duration |-> 5],
                                              [start |-> 10, duration |-> 5],
                                              [start |-> 20, duration |-> 3] }] :
                                     n \in 1..MaxSegments },
                i : {0}, segment_files : {<<>>}, runs : {<<>>}, disk : {{}},
                ret : {NoPath}]
    /\ task = "none"
    /\ operations = <<>>
    /\ inputExists = TRUE
    /\ subtitleExists = FALSE
    /\ listed = NoListing
    /\ state = "PENDING"
    /\ updates = <<>>
    /\ tpc = "idle"
    /\ epc = "start"
    /\ i = 0
    /\ current_input = NoPath
    /\ calls = <<>>
    /\ result = NoResult
    /\ wf = WfIdle
    /\ st = StIdle
    /\ rd = FirstDelivery
    /\ q = QIdle
    /\ lim = LimIdle
    /\ api = ApiIdle
    /\ jobs = JobsIdle

NextSegments ==
    \/ extract_segments_begin
    \/ extract_segments_step
    \/ extract_segments_concat
    \/ extract_segments_cleanup

SpecSegments == InitSegments /\ [][NextSegments]_vars

\* C33: when the operation returns, each segment of the list has been cut
\* exactly once, in list order, and the output holds the segments in the
\* order of the list; with one segment the only run cuts that segment into
\* the output.
C33_SegmentsOnceAndInListOrder ==
    seg.pc = "returned" =>
        /\ [n \in 1..Len(seg.runs) |-> seg.runs[n].segment]
             = [n \in 1..Len(seg.segments) |-> n]
        /\ ReadFile(seg.disk, seg.ret) = seg.segments
        /\ Len(seg.segments) = 1 => seg.runs[1].to = seg.ret

C33_Witness ==
    /\ seg.pc = "returned"
    /\ Len(seg.segments) = 3
    /\ seg.segments[1] = seg.segments[3]
    /\ seg.segments[1] # seg.segments[2]
    /\ Len(seg.runs) = 3
    /\ Cardinality(seg.disk) = 1

\* C34: a download asked for after the job completed and answered with a
\* file is answered with the final output of that job's pipeline.
C34_DownloadServesTheFinalOutput ==
    (/\ api.endpoint \in ProcessEndpoints
     /\ api.download.job = "completed"
     /\ api.download.file # {}) =>
        api.download.file = {result.output_path}

\* C35: a result that carries a download_url carries the remote_key and the
\* storage_url of a successful upload of the same run.
C35_DownloadUrlOnlyAfterUpload ==
    result.download_url => (result.remote_key /\ result.storage_url)

(***************************************************************************)
(* Jobs in which no operation runs                                         *)
(***************************************************************************)
\* The list is empty or holds only names the job's executor does not define.
NoneDefined ==
    \A n \in 1..Len(operations) : operations[n] \notin Defined(Kind(task))

\* C36: with an existing input and a list in which the executor defines no
\* name, the executor invokes nothing and reports 'completed' with the
\* job's input path as output_path, and process_audio_task /
\* process_video_task then announce the upload and upload that file under
\* the key built from its basename.
C36_NoOperationUploadsTheInput ==
    (/\ task \in {"process_audio_task", "process_video_task"}
     /\ inputExists /\ NoneDefined) =>
        /\ epc = "done" =>
              /\ calls = <<>>
              /\ result.status = "completed"
              /\ result.output_path = InputPath
        /\ tpc = "returned" =>
              /\ updates[Len(updates)]
                   = Update("PROGRESS", Len(operations), Len(operations))
              /\ result.remote_key =>
                    Uploaded(result) = {RemoteKey(task, TaskId, InputPath)}

C36_Witness ==
    /\ task = "process_audio_task"
    /\ operations = <<"unknown_op", "resize_video">>
    /\ tpc = "returned"
    /\ result.output_path = InputPath
    /\ result.remote_key

\* C37: when the job's input file does not exist the executor invokes no
\* operation (so writes no file) and returns a failed result, and the task
\* makes no upload and asks for no signed URL: it returns that result with
\* no update after its first one.
C37_MissingInputDoesNothing ==
    (task \in Tasks /\ ~inputExists) =>
        /\ calls = <<>>
        /\ epc = "done" =>
              /\ result.status = "failed"
              /\ result.error = Err("FileNotFoundError", ExecutorName(Kind(task)), 0)
              /\ result.output_path = NoPath
        /\ tpc = "returned" =>
              /\ updates = <<Update("PROGRESS", 0, Total(task))>>
              /\ ~result.storage_url /\ ~result.remote_key /\ ~result.download_url

C37_Witness ==
    /\ task = "process_video_task"
    /\ ~inputExists
    /\ Len(operations) = 2
    /\ tpc = "returned"
    /\ result.status = "failed"

\* C38: an add_subtitles step without a subtitle file does not fail the job:
\* it writes no output file, the next operation invoked receives the path
\* the step itself received, and when it is the last one the job completes
\* with that path.
C38_MissingSubtitlesSkipTheStep ==
    \A k \in 1..Len(PrimaryCalls) :
        (PrimaryCalls[k].fn = "_add_subtitles" /\ ~subtitleExists) =>
            /\ ~Failure(PrimaryCalls[k])
            /\ PrimaryCalls[k].output \notin LeftInScratch
            /\ k < Len(PrimaryCalls) =>
                  PrimaryCalls[k + 1].input = PrimaryCalls[k].input
            /\ (k = Len(PrimaryCalls) /\ epc = "done") =>
                  /\ result.status = "completed"
                  /\ result.output_path = PrimaryCalls[k].input

C38_Witness ==
    /\ task = "process_video_task"
    /\ ~subtitleExists
    /\ operations = <<"add_subtitles", "resize_video">>
    /\ epc = "done" /\ result.status = "completed"
    /\ Len(calls) = 2
    /\ calls[2].input = InputPath

\* The uploads a worker's job has asked for; n is the position of the
\* upload among them.
UploadsBy(w) == { u \in jobs.uploads : u.by = w }

\* C39: batch_upload_task asks for the upload of every path of its list, in
\* list order, whatever the earlier uploads returned; its results have one
\* entry per path in that order, and in its summary successful_uploads and
\* failed_uploads add up to total_files, the length of the list.
C39_BatchUploadsEveryPath ==
    \A w \in Workers :
        jobs.run[w].task = "batch_upload_task" =>
            /\ { u.n : u \in UploadsBy(w) } = 1..Len(jobs.run[w].results)
            /\ \A k \in 1..Len(jobs.run[w].results) :
                  /\ jobs.run[w].results[k].file_path = jobs.run[w].file_paths[k]
                  /\ \A u \in UploadsBy(w) :
                        u.n = k => u.file = jobs.run[w].file_paths[k]
            /\ jobs.run[w].pc = "done" =>
                  /\ Len(jobs.run[w].results) = Len(jobs.run[w].file_paths)
                  /\ jobs.run[w].summary.total_files = Len(jobs.run[w].file_paths)
                  /\ jobs.run[w].summary.successful_uploads
                       + jobs.run[w].summary.failed_uploads
                       = jobs.run[w].summary.total_files
                  /\ jobs.run[w].summary.successful_uploads
                       = Cardinality({ k \in 1..Len(jobs.run[w].results) :
                                         jobs.run[w].results[k].success })

C39_Witness ==
    /\ jobs.run["w1"].task = "batch_upload_task"
    /\ jobs.run["w1"].pc = "done"
    /\ Len(jobs.run["w1"].file_paths) = 2
    /\ ~jobs.run["w1"].results[1].success
    /\ jobs.run["w1"].results[2].success
    /\ jobs.run["w1"].summary.failed_uploads = 1

(***************************************************************************)
(* cleanup_old_files_task: what is deleted and what is noted               *)
(***************************************************************************)
\* The keys of a list, as a set.
Range(list) == { list[n] : n \in 1..Len(list) }

\* The keys noted in errors.
ErrorFiles == { e.file : e \in Range(result.errors) }

\* C40: cleanup_old_files_task deletes a stored object only if its
\* last-modified time is strictly older than the cutoff (now minus
\* max_age_days) and never a newer one; a listed key is in at most one of
\* deleted_files and errors, and in neither more than once; a failure on
\* one object does not stop the scan: when the summary is returned every
\* listed object has had its turn and its progress update, so every object
\* older than the cutoff is in deleted_files or in errors, whatever happened
\* to the objects listed before it.
C40_CleanupDeletesOnlyOlderAndScansAll ==
    task = "cleanup_old_files_task" =>
       /\ \A k \in Range(result.deleted_files) :
             /\ k \in 1..Len(listed.files)
             /\ listed.files[k].last_modified.day < listed.cutoff_date
       /\ Range(result.deleted_files) \cap ErrorFiles = {}
       /\ \A m, n \in 1..Len(result.deleted_files) :
             m # n => result.deleted_files[m] # result.deleted_files[n]
       /\ \A m, n \in 1..Len(result.errors) :
             m # n => result.errors[m].file # result.errors[n].file
       /\ (tpc = "returned" /\ result.status = "completed") =>
             /\ i = Len(listed.files) + 1
             /\ \A k \in 1..Len(listed.files) :
                   /\ \E n \in 1..Len(updates) :
                         updates[n] = Update("PROGRESS", k - 1,
                                             Len(listed.files))
                   /\ listed.files[k].last_modified.day < listed.cutoff_date
                         => k \in Range(result.deleted_files) \cup ErrorFiles

\* The summary is returned for two listed objects, both older than the
\* cutoff: the first could not be deleted and is in errors, the second was
\* deleted all the same.
C40_Witness ==
    /\ task = "cleanup_old_files_task"
    /\ tpc = "returned" /\ result.status = "completed"
    /\ Len(listed.files) = 2
    /\ listed.files[1].last_modified.day < listed.cutoff_date
    /\ result.errors = <<[file |-> 1, error |-> "delete"]>>
    /\ result.deleted_files = <<2>>
====
